---- MODULE Spec2Model ----
(***************************************************************************)
(* A model of the interception and resolution core of mockmate:            *)
(*   - CertCache            (services/cert-cache.ts)                       *)
(*   - the CONNECT decision (services/proxy-server.ts, handleConnect)      *)
(*   - the MITM tunnel      (services/proxy-server.ts, 'data' handler)     *)
(*   - the resolution engine (services/matcher.ts, proxy-handler.ts,       *)
(*     routes/mock.ts)                                                     *)
(* Each part has its own specification over the module's variables; the    *)
(* variables of the other parts stay at their initial values.              *)
(***************************************************************************)
EXTENDS Integers, Sequences, FiniteSets, TLC

\* ------------------------------------------------------------------------
\* Bounds of the model
\* ------------------------------------------------------------------------

\* largest maxSize a CertCache is constructed with in CacheSpec
MaxCacheSize == 2

\* number of getCert calls explored in CacheSpec
MaxCalls == 5

\* ------------------------------------------------------------------------
\* Generic helpers
\* ------------------------------------------------------------------------

Range(s) == { s[i] : i \in 1..Len(s) }

\* JavaScript truthiness of a string: the empty string is falsy.
Truthy(s) == s # ""

\* value of an absent optional (undefined / null)
Undefined == "<undefined>"

\* ------------------------------------------------------------------------
\* CertCache (services/cert-cache.ts)
\* ------------------------------------------------------------------------

VARIABLES
    cache,      \* Map<string, CertificateData> in insertion order: Seq of [key, value]
    maxSize,    \* CertCache.maxSize
    hits,       \* CertCache.hits
    misses,     \* CertCache.misses
    serial,     \* number of certificates the Issuer has generated so far
    issued,     \* per hostname, how often the Issuer was invoked for it
    removed,    \* per hostname, how often its entry left the cache (eviction, clear)
    lastUse,    \* per hostname, the time of its latest getCert (0: never)
    tick,       \* logical time: number of getCert calls made
    ret         \* the value returned by the latest getCert

cacheVars == <<cache, maxSize, hits, misses, serial, issued, removed, lastUse, tick, ret>>

\* hostnames passed to getCert; the empty string is a string like any other
Domains == {"", "api.example.com", "example.com", "other.test"}

NoCert == [serial |-> 0, domains |-> <<>>]

\* Map.prototype.has / get / delete / set on an insertion-ordered map
MapHas(m, k) == \E i \in 1..Len(m) : m[i].key = k

MapGet(m, k) ==
    IF MapHas(m, k) THEN (CHOOSE e \in Range(m) : e.key = k).value ELSE NoCert

MapDelete(m, k) == SelectSeq(m, LAMBDA e : e.key # k)

\* set on an existing key keeps its position; on a new key it appends
MapSet(m, k, v) ==
    IF MapHas(m, k)
    THEN [i \in 1..Len(m) |-> IF m[i].key = k THEN [key |-> k, value |-> v] ELSE m[i]]
    ELSE Append(m, [key |-> k, value |-> v])

\* this.cache.keys().next().value: the first key in insertion order
MapFirstKey(m) == IF Len(m) > 0 THEN m[1].key ELSE Undefined

MapKeys(m) == { m[i].key : i \in 1..Len(m) }

\* generateServerCert(ca, domains): a fresh key pair and certificate each call,
\* identified here by the number of the issuance
GenerateServerCert(domains, n) == [serial |-> n, domains |-> domains]

\* `if (oldestKey)`: the guard of the eviction
EvictGuard(oldestKey) == oldestKey # Undefined /\ Truthy(oldestKey)

\* the cache after the eviction step of a miss
AfterEvict(m, limit) ==
    IF Len(m) >= limit
    THEN LET oldestKey == MapFirstKey(m)
         IN  IF EvictGuard(oldestKey) THEN MapDelete(m, oldestKey) ELSE m
    ELSE m

\* a cache that never finds an entry: every call issues again
CacheNeverHit(m, domain) == FALSE

\* `if (cached)`: a hit
CacheHit(m, domain) == MapHas(m, domain)

\* getCert(domain): [cache, value, hit] after the call
GetCertResult(m, limit, domain, n) ==
    IF CacheHit(m, domain)
    THEN LET cached == MapGet(m, domain)
         IN  [cache |-> MapSet(MapDelete(m, domain), domain, cached),
              value |-> cached, hit |-> TRUE]
    ELSE LET cert == GenerateServerCert(<<domain>>, n)
         IN  [cache |-> MapSet(AfterEvict(m, limit), domain, cert),
              value |-> cert, hit |-> FALSE]

\* the state change of one getCert(domain) call on the cache variables
DoGetCert(domain) ==
    LET r == GetCertResult(cache, maxSize, domain, serial + 1)
        gone == MapKeys(cache) \ MapKeys(r.cache)
    IN  /\ cache' = r.cache
        /\ ret' = r.value
        /\ hits' = IF r.hit THEN hits + 1 ELSE hits
        /\ misses' = IF r.hit THEN misses ELSE misses + 1
        /\ serial' = IF r.hit THEN serial ELSE serial + 1
        /\ issued' = IF r.hit THEN issued
                     ELSE [issued EXCEPT ![domain] = @ + 1]
        /\ removed' = [d \in Domains |-> IF d \in gone THEN removed[d] + 1 ELSE removed[d]]
        /\ tick' = tick + 1
        /\ lastUse' = [lastUse EXCEPT ![domain] = tick + 1]
        /\ UNCHANGED maxSize

GetCert(domain) ==
    /\ tick < MaxCalls
    /\ DoGetCert(domain)

\* clear()
Clear ==
    /\ cache' = <<>>
    /\ hits' = 0
    /\ misses' = 0
    /\ removed' = [d \in Domains |-> IF d \in MapKeys(cache) THEN removed[d] + 1 ELSE removed[d]]
    /\ UNCHANGED <<maxSize, serial, issued, lastUse, tick, ret>>

\* stats()
Stats == [size |-> Len(cache), maxSize |-> maxSize, hits |-> hits, misses |-> misses]

\* new CertCache({maxSize})
CacheConstructed(limit) ==
    /\ cache = <<>>
    /\ maxSize = limit
    /\ hits = 0
    /\ misses = 0
    /\ serial = 0
    /\ issued = [d \in Domains |-> 0]
    /\ removed = [d \in Domains |-> 0]
    /\ lastUse = [d \in Domains |-> 0]
    /\ tick = 0
    /\ ret = NoCert


\* ---- claims about the cache ----

\* the cached hostname whose latest getCert is the oldest / the newest
LeastRecentlyUsed(m) ==
    CHOOSE k \in MapKeys(m) : \A o \in MapKeys(m) : lastUse[k] <= lastUse[o]

MostRecentlyUsed(m) ==
    CHOOSE k \in MapKeys(m) : \A o \in MapKeys(m) : lastUse[k] >= lastUse[o]

\* C5: after any sequence of getCert and clear calls on a cache with
\* maxSize >= 1, stats().size is at most maxSize, whatever hostname strings
\* were passed.  (Violated when the oldest key is the empty string.)
C5_SizeAtMostMaxSize == Stats.size <= Stats.maxSize

\* C6: a getCert that misses on a full cache evicts exactly the cached
\* hostname whose latest getCert access is the oldest, and never the most
\* recently accessed one.  (Fails when the oldest key is the empty string.)
C6_EvictsLeastRecentlyUsed ==
    [][ (misses' = misses + 1 /\ Len(cache) >= maxSize)
          => /\ MapKeys(cache) \ MapKeys(cache') = {LeastRecentlyUsed(cache)}
             /\ (maxSize > 1 => MostRecentlyUsed(cache) \in MapKeys(cache')) ]_cacheVars

\* ------------------------------------------------------------------------
\* The active project (services/projects.ts), as the proxy reads it
\* ------------------------------------------------------------------------

VARIABLES
    project,    \* getActiveProject(): NoProject (null) or the project record
    resources,  \* listResources(project.id): the active project's resources
    reqlog,     \* logEntries of the request logger, newest first
    last,       \* the latest request resolved, with what the handler did
    handled     \* number of requests resolved

resolveVars == <<resources, reqlog, last, handled>>

\* no request has been resolved yet
NoLast == [via |-> "none"]

\* the resolution engine before any request
ResolveIdle ==
    /\ resources = <<>>
    /\ reqlog = <<>>
    /\ last = NoLast
    /\ handled = 0

\* what outlives a connection: the storage directory (~/.mockmate) as the
\* project service reads it, and the process that listens
VARIABLES
    projects,   \* listProjects(): the project.json files, newest first
    config,     \* readConfig(): the global config with activeProjectId
    listener    \* the node process of createProxyServer: listening or terminated

storeVars == <<projects, config, listener>>

\* no project stored and none active, the process is up
StoreIdle ==
    /\ projects = <<>>
    /\ config = [activeProjectId |-> Undefined]
    /\ listener = "listening"

\* one intercepted (MITM) tunnel: the closure of handleConnect's data handler
VARIABLES
    script,     \* the requests the client sends on the tunnel, in order
    delivered,  \* number of bytes of the client's stream delivered in data events
    buffer,     \* `buffer`: bytes received and not yet taken by a request
    dispatched, \* the byte range each dispatch took from the stream, in order
    pending,    \* data handlers suspended at `await resolveProxyRequest(...)`
    written     \* responses written to the TLS socket, in order

tunnelVars == <<script, delivered, buffer, dispatched, pending, written>>

\* no tunnel traffic
TunnelIdle ==
    /\ script = <<>>
    /\ delivered = 0
    /\ buffer = <<>>
    /\ dispatched = <<>>
    /\ pending = {}
    /\ written = <<>>

\* what is observed of single calls and of one blind tunnel
VARIABLES
    call,       \* the latest call of a function on given arguments, with its result
    blind       \* one blind tunnel: the sockets of blindTunnel and what crossed them

\* the certificate directory (~/.mockmate/certs) across process starts
VARIABLES
    files,      \* the four files of the directory: name -> content
    now,        \* the clock, in half days
    ensured,    \* the latest ensureCertificates call and what it returned
    minted,     \* key pairs generated so far: generateCA calls, all calls
    waits       \* times the clock was advanced

certVars == <<files, now, ensured, minted, waits>>

restVars == <<call, blind, certVars>>

NoCall == [fn |-> "none"]

NoBlind == [state |-> "none"]

\* a file that does not exist
Missing == [pem |-> "missing"]

CertFiles == {"ca.crt", "ca.key", "server.crt", "server.key"}

NoEnsured == [calls |-> 0]

CertIdle ==
    /\ files = [f \in CertFiles |-> Missing]
    /\ now = 0
    /\ ensured = NoEnsured
    /\ minted = [ca |-> 0, all |-> 0]
    /\ waits = 0

RestIdle == call = NoCall /\ blind = NoBlind /\ CertIdle /\ StoreIdle

NoProject == [id |-> Undefined]

\* values of Project.baseUrl: absent, empty, unparsable, and URLs
BaseUrls ==
    { Undefined, "not a url",
      "https://API.EXAMPLE.COM", "http://api.example.com:8080/v1",
      "https://example.com", "file:///tmp/mock" }

\* new URL(u) throws a TypeError
UrlThrows(u) == u \in {Undefined, "", "not a url"}

\* new URL(u).hostname: the host, lower-cased, without port, path or scheme
UrlHostname(u) ==
    CASE u = "https://API.EXAMPLE.COM"        -> "api.example.com"
      [] u = "http://api.example.com:8080/v1" -> "api.example.com"
      [] u = "https://example.com"            -> "example.com"
      [] u = "file:///tmp/mock"               -> ""
      [] OTHER                                -> Undefined

\* `!project.baseUrl`
HasBaseUrl(p) == p.baseUrl # Undefined /\ Truthy(p.baseUrl)

\* ------------------------------------------------------------------------
\* Accepted connections and the CONNECT decision (services/proxy-server.ts)
\* ------------------------------------------------------------------------

VARIABLES
    conns       \* per accepted client socket, what the proxy has done with it

\* all variables of the model
vars == <<cacheVars, project, conns, resolveVars, tunnelVars, restVars, storeVars>>

\* connections accepted in ConnectSpec
MaxConns == 2

\* createProxyServer: new CertCache({ maxSize: 100, ... })
ProxyCacheMaxSize == 100

ConnIds == 1..MaxConns

\* hosts a client may name in CONNECT host:port
ConnectHosts == {"", "api.example.com", "example.com", "API.EXAMPLE.COM"}

\* parts[1] of the CONNECT line: absent, or host:port / host
NoTarget == [host |-> Undefined, portStr |-> Undefined]

ConnectTargets ==
    {NoTarget} \cup [host : ConnectHosts, portStr : {"8443"}]

\* parseInt(portStr || '443', 10)
ParsePort(portStr) == IF portStr = Undefined THEN 443 ELSE 8443

\* a socket that has been accepted and has sent nothing yet
FreshConn ==
    [state |-> "accepted", host |-> Undefined, port |-> 0,
     written |-> <<>>, certAsked |-> FALSE, tls |-> FALSE, cert |-> NoCert,
     seen |-> NoProject, gen |-> 0]

\* s ends with t, for the host names of the model
EndsWith(s, t) ==
    \/ s = t
    \/ t = ""
    \/ <<s, t>> \in {<<"api.example.com", "example.com">>}

\* a decision by suffix instead of equality
ShouldInterceptSuffix(p, hostname) ==
    IF p = NoProject \/ ~HasBaseUrl(p) THEN FALSE
    ELSE IF UrlThrows(p.baseUrl) THEN FALSE
    ELSE EndsWith(hostname, UrlHostname(p.baseUrl))

\* shouldIntercept(hostname)
ShouldIntercept(p, hostname) ==
    IF p = NoProject \/ ~HasBaseUrl(p) THEN FALSE
    ELSE IF UrlThrows(p.baseUrl) THEN FALSE
    ELSE UrlHostname(p.baseUrl) = hostname

\* handleConnect, `if (!target)`: 400 and the socket is ended
ConnectBadRequest(c, t) ==
    /\ t = NoTarget
    /\ conns' = [conns EXCEPT ![c] =
                    [@ EXCEPT !.state = "closed",
                              !.written = Append(@, "400 Bad Request"),
                              !.seen = project]]
    /\ UNCHANGED cacheVars

\* handleConnect, `if (!shouldIntercept(hostname))`: blindTunnel(...)
ConnectBlind(c, t) ==
    /\ t # NoTarget
    /\ ~ShouldIntercept(project, t.host)
    /\ conns' = [conns EXCEPT ![c] =
                    [@ EXCEPT !.state = "blind", !.host = t.host,
                              !.port = ParsePort(t.portStr), !.seen = project]]
    /\ UNCHANGED cacheVars

\* handleConnect, MITM: 200, certCache.getCert(hostname), new tls.TLSSocket
ConnectMitm(c, t) ==
    /\ t # NoTarget
    /\ ShouldIntercept(project, t.host)
    /\ DoGetCert(t.host)
    /\ conns' = [conns EXCEPT ![c] =
                    [@ EXCEPT !.state = "mitm", !.host = t.host,
                              !.port = ParsePort(t.portStr),
                              !.written = Append(@, "200 Connection Established"),
                              !.certAsked = TRUE, !.tls = TRUE, !.cert = ret',
                              !.seen = project, !.gen = removed[t.host]]]

\* the first chunk of a connection starts with "CONNECT ": handleConnect
HandleConnect(c) ==
    /\ conns[c].state = "accepted"
    /\ \E t \in ConnectTargets :
          \/ ConnectBadRequest(c, t)
          \/ ConnectBlind(c, t)
          \/ ConnectMitm(c, t)
    /\ UNCHANGED <<project, resolveVars, tunnelVars, restVars, storeVars>>

\* the admin API activates, edits, deactivates or deletes the active project
ProjectWith(u) ==
    [id |-> "p1", baseUrl |-> u, passthroughEnabled |-> FALSE,
     activeScenario |-> "default"]

SetProject ==
    /\ \E p \in {NoProject} \cup { ProjectWith(u) : u \in BaseUrls } :
          /\ p # project
          /\ project' = p
    /\ UNCHANGED <<cacheVars, conns, resolveVars, tunnelVars, restVars, storeVars>>

ConnectInit ==
    /\ CacheConstructed(ProxyCacheMaxSize)
    /\ project = NoProject
    /\ conns = [c \in ConnIds |-> FreshConn]
    /\ ResolveIdle
    /\ TunnelIdle
    /\ RestIdle

ConnectNext ==
    \/ \E c \in ConnIds : HandleConnect(c)
    \/ SetProject

\* ---- claims about the CONNECT decision ----

\* the condition of the claim, on the project as it was when the CONNECT arrived
C4_Matches(p, host) ==
    /\ p # NoProject
    /\ p.baseUrl \notin {Undefined, ""}
    /\ ~UrlThrows(p.baseUrl)
    /\ UrlHostname(p.baseUrl) = host

\* C4: for a CONNECT request naming a target host, MITM is chosen if and only
\* if an active project exists, has a base URL, and that URL's hostname equals
\* the target host exactly; in every other case the blind tunnel is chosen,
\* and on the blind path no leaf certificate is requested from the cache and
\* no TLS server socket is created.
C4_MitmIffExactHost ==
    \A c \in ConnIds :
        LET k == conns[c] IN
        /\ k.state = "mitm" => C4_Matches(k.seen, k.host) /\ k.certAsked /\ k.tls
        /\ k.state = "blind" => ~C4_Matches(k.seen, k.host) /\ ~k.certAsked /\ ~k.tls
        /\ k.state = "closed" => ~k.certAsked /\ ~k.tls
        /\ k.host # Undefined => k.state \in {"mitm", "blind"}

\* a MITM and a blind decision for hosts that share a suffix with the project's host
C4_Witness ==
    \E c, d \in ConnIds :
        /\ conns[c].state = "mitm" /\ conns[c].host = "example.com"
        /\ conns[d].state = "blind" /\ conns[d].host = "api.example.com"
        /\ conns[d].seen = conns[c].seen

\* C7: however connections to the same intercepted hostname interleave, the
\* Issuer is invoked once per stay of the hostname in the cache (exactly once
\* while it is never evicted), and every connection that got its certificate
\* during the current stay presents the cached leaf certificate.
C7_IssuedOncePerHostname ==
    /\ \A h \in Domains :
          issued[h] = removed[h] + (IF MapHas(cache, h) THEN 1 ELSE 0)
    /\ \A c \in ConnIds :
          (conns[c].state = "mitm" /\ conns[c].gen = removed[conns[c].host])
              => /\ MapHas(cache, conns[c].host)
                 /\ conns[c].cert = MapGet(cache, conns[c].host)
                 /\ conns[c].cert.domains = <<conns[c].host>>

\* two connections to one fresh hostname: one issuance, one certificate
C7_Witness ==
    \E c, d \in ConnIds :
        /\ c # d
        /\ conns[c].state = "mitm" /\ conns[d].state = "mitm"
        /\ conns[c].host = conns[d].host
        /\ conns[c].cert = conns[d].cert
        /\ issued[conns[c].host] = 1
        /\ hits = 1 /\ misses = 1

\* ------------------------------------------------------------------------
\* Request matcher, scenario resolver, response builder (services/matcher.ts)
\* ------------------------------------------------------------------------

\* A path or a path pattern is the sequence of its characters.
\* [a-zA-Z_] and [a-zA-Z0-9_] over the characters the model uses
IdStart == {"u", "x", "i", "q", "_"}

IdChar == IdStart \cup {"1"}

\* the length of the identifier that starts at position k of pattern (0: none)
RECURSIVE IdRun(_, _)
IdRun(pattern, k) ==
    IF k <= Len(pattern) /\ pattern[k] \in IdChar
    THEN 1 + IdRun(pattern, k + 1)
    ELSE 0

\* pathToRegex: the pattern from position k on, as literal characters and
\* parameter groups ([^/]+); a ':' not followed by an identifier stays literal
RECURSIVE PatternTokens(_, _)
PatternTokens(pattern, k) ==
    IF k > Len(pattern) THEN <<>>
    ELSE IF pattern[k] = ":" /\ k < Len(pattern) /\ pattern[k + 1] \in IdStart
    THEN LET n == IdRun(pattern, k + 1)
         IN  <<[param |-> SubSeq(pattern, k + 1, k + n)]>>
                 \o PatternTokens(pattern, k + n + 1)
    ELSE <<[lit |-> pattern[k]]>> \o PatternTokens(pattern, k + 1)

PathToRegex(pattern) == PatternTokens(pattern, 1)

IsParam(tok) == "param" \in DOMAIN tok

\* regex.test(path) for ^...$: tokens from ti on match path from pi on
RECURSIVE RegexMatchFrom(_, _, _, _)
RegexMatchFrom(tokens, ti, path, pi) ==
    IF ti > Len(tokens) THEN pi > Len(path)
    ELSE IF IsParam(tokens[ti])
    THEN \E n \in 1..(Len(path) - pi + 1) :
            /\ \A j \in pi..(pi + n - 1) : path[j] # "/"
            /\ RegexMatchFrom(tokens, ti + 1, path, pi + n)
    ELSE /\ pi <= Len(path)
         /\ path[pi] = tokens[ti].lit
         /\ RegexMatchFrom(tokens, ti + 1, path, pi + 1)

RegexTest(tokens, path) == RegexMatchFrom(tokens, 1, path, 1)

\* a matcher that takes the path as written
NormalizePathAsWritten(path) == path

\* path === '/' ? '/' : path.replace(/\/$/, '')
NormalizePath(path) ==
    IF path = <<"/">> THEN path
    ELSE IF Len(path) > 0 /\ path[Len(path)] = "/"
    THEN SubSeq(path, 1, Len(path) - 1)
    ELSE path

\* a loop body that does not compare methods
ResourceMatchesAnyMethod(resource, method, path) ==
    RegexTest(PathToRegex(NormalizePath(resource.path)), NormalizePath(path))

\* `resource.method !== method` and the regex test of matchRequest's loop body
ResourceMatches(resource, method, path) ==
    /\ resource.method = method
    /\ RegexTest(PathToRegex(NormalizePath(resource.path)), NormalizePath(path))

NoMatch == [id |-> Undefined]

\* matchRequest: the first resource of the list that matches, or null
MatchRequest(method, path, rs) ==
    IF \E i \in 1..Len(rs) : ResourceMatches(rs[i], method, path)
    THEN rs[CHOOSE i \in 1..Len(rs) :
                /\ ResourceMatches(rs[i], method, path)
                /\ \A j \in 1..(i - 1) : ~ResourceMatches(rs[j], method, path)]
    ELSE NoMatch

\* the safe fallback of resolveScenario
BuiltinScenario ==
    [name |-> "default", statusCode |-> 200, delay |-> 0]

\* resource.scenarios.find(s => s.name === name), as an index (0: undefined)
FindScenario(scenarios, name) ==
    IF \E i \in 1..Len(scenarios) : scenarios[i].name = name
    THEN CHOOSE i \in 1..Len(scenarios) :
            /\ scenarios[i].name = name
            /\ \A j \in 1..(i - 1) : scenarios[j].name # name
    ELSE 0

\* a resolver that does not look for `default` before the first scenario
FirstOrBuiltin(scenarios) ==
    IF Len(scenarios) > 0 THEN scenarios[1] ELSE BuiltinScenario

\* the common tail of resolveScenario: default, first declared, built-in
DefaultOrFirst(scenarios) ==
    IF FindScenario(scenarios, "default") # 0
    THEN scenarios[FindScenario(scenarios, "default")]
    ELSE IF Len(scenarios) > 0 THEN scenarios[1]
    ELSE BuiltinScenario

\* resolveScenario(resource, scenarioName)
ResolveScenario(resource, scenarioName) ==
    IF scenarioName = Undefined \/ ~Truthy(scenarioName)
    THEN DefaultOrFirst(resource.scenarios)
    ELSE IF FindScenario(resource.scenarios, scenarioName) # 0
    THEN resource.scenarios[FindScenario(resource.scenarios, scenarioName)]
    ELSE DefaultOrFirst(resource.scenarios)

\* buildResponse(scenario): the ResponseConfig (it has no passthrough field)
BuildResponse(scenario) ==
    [statusCode |-> scenario.statusCode,
     delay |-> scenario.delay,
     scenario |-> scenario.name]

NullConfig == [null |-> TRUE]

\* a selection that lets the active scenario win over the header
ActiveFirstScenarioName(activeScenario, headerScenario) ==
    IF activeScenario # Undefined THEN activeScenario ELSE headerScenario

\* a selection that keeps the override of the request before
StickyOverrideScenarioName(activeScenario, headerScenario) ==
    IF headerScenario # Undefined THEN headerScenario
    ELSE IF last.via # "none" /\ last.req.scenarioHeader # Undefined
    THEN last.req.scenarioHeader
    ELSE activeScenario

\* `headerScenario ?? activeScenario`
EffectiveScenarioName(activeScenario, headerScenario) ==
    IF headerScenario # Undefined THEN headerScenario ELSE activeScenario

\* handleRequest(method, path, resources, activeScenario, headerScenario)
HandleRequest(method, path, rs, activeScenario, headerScenario) ==
    LET match == MatchRequest(method, path, rs)
    IN  IF match = NoMatch THEN NullConfig
        ELSE BuildResponse(
                ResolveScenario(match,
                    EffectiveScenarioName(activeScenario, headerScenario)))

\* responseConfig.passthrough: a property read, undefined when absent
ConfigPassthrough(rc) ==
    IF "passthrough" \in DOMAIN rc THEN rc.passthrough ELSE FALSE

\* ------------------------------------------------------------------------
\* Request Log (services/logger.ts)
\* ------------------------------------------------------------------------

MAX_LOG_ENTRIES == 100

\* an addLogEntry that never trims
AddLogEntryUntrimmed(log, entry) == <<entry>> \o log

\* addLogEntry(entry)
AddLogEntry(log, entry) ==
    LET l == <<entry>> \o log
    IN  IF Len(l) > MAX_LOG_ENTRIES THEN SubSeq(l, 1, MAX_LOG_ENTRIES) ELSE l

\* logRequest(method, path, statusCode, duration, resourceId, scenario,
\* scenarioFromHeader): it has no eighth parameter, so `proxied` is never set
LogRequest(log, method, path, statusCode, scenario, scenarioFromHeader) ==
    AddLogEntry(log,
        [method |-> method, path |-> path, statusCode |-> statusCode,
         scenario |-> scenario, scenarioFromHeader |-> scenarioFromHeader,
         proxied |-> Undefined])

\* ------------------------------------------------------------------------
\* Resolution engine: the direct-connect handler (routes/mock.ts) and the
\* proxy's resolver (services/proxy-handler.ts)
\* ------------------------------------------------------------------------

\* requests explored in ResolveSpec
MaxRequests == 1

HttpMethods == {"GET", "POST"}

\* what the real server does with a forwarded request:
\* it answers 200, refuses the connection, or does not answer in 30 s
UpstreamReplies == {"200", "refused", "timeout"}

\* forwardRequest / proxyRequest: the status of the response object returned
ForwardStatus(up) ==
    CASE up = "200"     -> 200
      [] up = "refused" -> 502
      [] up = "timeout" -> 504

\* req.path of Express: the request target without its query string
RECURSIVE ExpressPath(_)
ExpressPath(url) ==
    IF url = <<>> \/ Head(url) = "?" THEN <<>>
    ELSE <<Head(url)>> \o ExpressPath(Tail(url))

\* `!!headerScenario`
FromHeader(headerScenario) ==
    IF headerScenario # Undefined /\ Truthy(headerScenario) THEN "true" ELSE "false"

\* canProxy(project)
CanProxy(p) == p.passthroughEnabled /\ HasBaseUrl(p)

\* what a handler did with one request
Outcome(kind, statusCode, scenario, forwarder, upstream, delay, entries) ==
    [kind |-> kind, statusCode |-> statusCode, scenario |-> scenario,
     forwarder |-> forwarder, upstream |-> upstream, delay |-> delay,
     entries |-> entries]

LogEntry(method, path, statusCode, scenario, scenarioFromHeader) ==
    [method |-> method, path |-> path, statusCode |-> statusCode,
     scenario |-> scenario, scenarioFromHeader |-> scenarioFromHeader]

\* sendProxiedResponse(req, res, project, startTime); proxyRequest builds
\* new URL(req.originalUrl, baseUrl) outside its try block, so a base URL that
\* does not parse raises, and mockRequestHandler's catch answers 500
SendProxiedResponse(p, req, up) ==
    IF UrlThrows(p.baseUrl)
    THEN Outcome("error", 500, Undefined, TRUE, FALSE, 0,
                 <<LogEntry(req.method, ExpressPath(req.url), 500, Undefined, Undefined)>>)
    ELSE Outcome("forward", ForwardStatus(up), Undefined, TRUE, TRUE, 0,
                 <<LogEntry(req.method, ExpressPath(req.url), ForwardStatus(up),
                            Undefined, "false")>>)

\* mockRequestHandler(req, res, next)
MockRequestHandler(p, rs, req, up) ==
    IF p = NoProject
    THEN Outcome("nocontext", 503, Undefined, FALSE, FALSE, 0,
                 <<LogEntry(req.method, ExpressPath(req.url), 503, Undefined, Undefined)>>)
    ELSE LET headerScenario == req.scenarioHeader
             responseConfig == HandleRequest(req.method, ExpressPath(req.url), rs,
                                             p.activeScenario, headerScenario)
         IN  IF responseConfig = NullConfig
             THEN IF CanProxy(p)
                  THEN SendProxiedResponse(p, req, up)
                  ELSE Outcome("notfound", 404, Undefined, FALSE, FALSE, 0,
                               <<LogEntry(req.method, ExpressPath(req.url), 404,
                                          Undefined, Undefined)>>)
             ELSE IF ConfigPassthrough(responseConfig) /\ CanProxy(p)
             THEN SendProxiedResponse(p, req, up)
             ELSE Outcome("mock", responseConfig.statusCode, responseConfig.scenario,
                          FALSE, FALSE, responseConfig.delay,
                          <<LogEntry(req.method, ExpressPath(req.url),
                                     responseConfig.statusCode, responseConfig.scenario,
                                     FromHeader(headerScenario))>>)

\* forwardRequest(baseUrl, req) followed by the caller's logRequest
ForwardRequest(p, req, up) ==
    Outcome("forward", ForwardStatus(up), Undefined, TRUE, TRUE, 0,
            <<LogEntry(req.method, req.url, ForwardStatus(up), Undefined, "false")>>)

\* resolveProxyRequest returns null
NullOutcome == Outcome("null", 0, Undefined, FALSE, FALSE, 0, <<>>)

\* the host check at the head of resolveProxyRequest
ProxyHandles(p, host) ==
    /\ p # NoProject
    /\ HasBaseUrl(p)
    /\ ~UrlThrows(p.baseUrl)
    /\ UrlHostname(p.baseUrl) = host

\* a no-match branch that honours the passthrough flag, as the direct handler does
ProxyNoMatchIfEnabled(p, req, up) ==
    IF CanProxy(p) THEN ForwardRequest(p, req, up)
    ELSE Outcome("notfound", 404, Undefined, FALSE, FALSE, 0,
                 <<LogEntry(req.method, req.url, 404, Undefined, Undefined)>>)

\* the no-match branch of resolveProxyRequest: always forward
ProxyNoMatch(p, req, up) == ForwardRequest(p, req, up)

\* resolveProxyRequest(req, host)
ResolveProxyRequest(p, rs, req, host, up) ==
    IF ~ProxyHandles(p, host) THEN NullOutcome
    ELSE LET headerScenario == req.scenarioHeader
             responseConfig == HandleRequest(req.method, req.url, rs,
                                             p.activeScenario, headerScenario)
         IN  IF responseConfig = NullConfig
             THEN ProxyNoMatch(p, req, up)
             ELSE IF ConfigPassthrough(responseConfig) /\ HasBaseUrl(p)
             THEN ForwardRequest(p, req, up)
             ELSE Outcome("mock", responseConfig.statusCode, responseConfig.scenario,
                          FALSE, FALSE, responseConfig.delay,
                          <<LogEntry(req.method, req.url,
                                     responseConfig.statusCode, responseConfig.scenario,
                                     FromHeader(headerScenario))>>)

\* the log after the entries of an outcome were written
Logged(log, entries) ==
    IF entries = <<>> THEN log
    ELSE LogRequest(log, entries[1].method, entries[1].path, entries[1].statusCode,
                    entries[1].scenario, entries[1].scenarioFromHeader)

\* ---- the inputs of ResolveSpec ----

Sc(name, statusCode, delay) == [name |-> name, statusCode |-> statusCode, delay |-> delay]

ScDefault == Sc("default", 200, 0)
ScActive == Sc("active", 201, 0)
ScHeader == Sc("header", 500, 50)

Res(id, method, path, scenarios) ==
    [id |-> id, method |-> method, path |-> path, scenarios |-> scenarios]

\* a resource stored with `passthrough: true`
PassthroughRes(id, method, path, scenarios) ==
    [id |-> id, method |-> method, path |-> path, scenarios |-> scenarios,
     passthrough |-> TRUE]

\* Resource.passthrough, absent read as false
MarkedPassthrough(resource) ==
    "passthrough" \in DOMAIN resource /\ resource.passthrough

PathU == <<"/", "u">>
PathX == <<"/", "x">>
PathUQuery == <<"/", "u", "?", "q">>
PathUSlash == <<"/", "u", "/">>
PathUParam == <<"/", "u", "/", ":", "i">>

\* resource lists: with all three scenarios, without `default`, without any
\* scenario, and empty
ResourceLists ==
    { <<>>,
      <<Res("r1", "GET", PathU, <<ScActive, ScDefault, ScHeader>>)>>,
      <<Res("r1", "GET", PathU, <<ScHeader, ScActive>>),
        Res("r2", "POST", PathU, <<ScDefault>>)>>,
      <<Res("r1", "GET", PathU, <<>>)>>,
      <<PassthroughRes("r1", "GET", PathU, <<ScDefault>>)>> }

ScenarioHeaders == {Undefined, "", "header", "missing"}

Requests ==
    [method : HttpMethods, url : {PathU, PathX, PathUQuery, PathUSlash},
     scenarioHeader : ScenarioHeaders]

ResolveProjects ==
    {NoProject} \cup
    [id : {"p1"},
     baseUrl : {Undefined, "not a url", "http://api.example.com:8080/v1"},
     passthroughEnabled : BOOLEAN,
     activeScenario : {"default", "active", "missing"}]

ResolveHosts == {"api.example.com", "example.com"}

NoRequest == [method |-> Undefined, url |-> <<>>, scenarioHeader |-> Undefined]

\* a request arrives at the direct-connect port
DirectRequest ==
    /\ handled < MaxRequests
    /\ \E req \in Requests, up \in UpstreamReplies :
          LET o == MockRequestHandler(project, resources, req, up)
          IN  /\ last' = [via |-> "direct", req |-> req, host |-> Undefined,
                          matched |-> MatchRequest(req.method, ExpressPath(req.url), resources),
                          outcome |-> o]
              /\ reqlog' = Logged(reqlog, o.entries)
    /\ handled' = handled + 1
    /\ UNCHANGED <<project, resources, cacheVars, conns, tunnelVars, restVars, storeVars>>

\* a request arrives through the proxy for `host`
ProxyRequest ==
    /\ handled < MaxRequests
    /\ \E req \in Requests, host \in ResolveHosts, up \in UpstreamReplies :
          LET o == ResolveProxyRequest(project, resources, req, host, up)
          IN  /\ last' = [via |-> "proxy", req |-> req, host |-> host,
                          matched |-> MatchRequest(req.method, req.url, resources),
                          outcome |-> o]
              /\ reqlog' = Logged(reqlog, o.entries)
    /\ handled' = handled + 1
    /\ UNCHANGED <<project, resources, cacheVars, conns, tunnelVars, restVars, storeVars>>

ResolveInit ==
    /\ CacheConstructed(ProxyCacheMaxSize)
    /\ conns = [c \in ConnIds |-> FreshConn]
    /\ project \in ResolveProjects
    /\ resources \in ResourceLists
    /\ reqlog = <<>>
    /\ last = NoLast
    /\ handled = 0
    /\ TunnelIdle
    /\ RestIdle

ResolveNext == DirectRequest \/ ProxyRequest

\* ---- claims about scenario resolution and the no-match decision ----

\* the latest request matched a resource and reached the scenario resolver
ReachedResolver ==
    /\ last.via # "none"
    /\ last.matched # NoMatch
    /\ last.outcome.kind \notin {"null", "nocontext"}

ScenarioNames(scenarios) == { scenarios[i].name : i \in 1..Len(scenarios) }

ScenarioNamed(scenarios, name) ==
    scenarios[CHOOSE i \in 1..Len(scenarios) :
                 /\ scenarios[i].name = name
                 /\ \A j \in 1..(i - 1) : scenarios[j].name # name]

\* the first candidate of `names` present among `scenarios`, then the first
\* declared scenario, then status 200 with zero delay
RECURSIVE FirstCandidate(_, _)
FirstCandidate(scenarios, names) ==
    IF names = <<>>
    THEN IF Len(scenarios) > 0 THEN scenarios[1]
         ELSE [name |-> "default", statusCode |-> 200, delay |-> 0]
    ELSE IF Head(names) \in ScenarioNames(scenarios)
    THEN ScenarioNamed(scenarios, Head(names))
    ELSE FirstCandidate(scenarios, Tail(names))

Serves(candidate) ==
    /\ last.outcome.kind = "mock"
    /\ last.outcome.scenario = candidate.name
    /\ last.outcome.statusCode = candidate.statusCode
    /\ last.outcome.delay = candidate.delay

C9_FallbackCases ==
    (/\ ReachedResolver
     /\ ScenarioNames(last.matched.scenarios) = {"default", "active", "header"})
    => /\ last.outcome.kind = "mock"
       /\ (project.activeScenario = "active" /\ last.req.scenarioHeader = Undefined)
             => last.outcome.scenario = "active"
       /\ (project.activeScenario = "active" /\ last.req.scenarioHeader = "header")
             => last.outcome.scenario = "header"
       /\ (project.activeScenario = "active" /\ last.req.scenarioHeader = "missing")
             => last.outcome.scenario = "default"
       /\ (project.activeScenario = "missing" /\ last.req.scenarioHeader = Undefined)
             => last.outcome.scenario = "default"

\* the override `header` won over the active scenario `active`
C9_Witness ==
    /\ ReachedResolver
    /\ ScenarioNames(last.matched.scenarios) = {"default", "active", "header"}
    /\ project.activeScenario = "active"
    /\ last.req.scenarioHeader = "header"
    /\ last.outcome.scenario = "header"
    /\ last.outcome.statusCode = 500

\* C11: a request that matches a resource marked passthrough, under a
\* project with a base URL, is forwarded upstream and not mocked, also when
\* the project's passthrough flag is off.
C11_PassthroughResourceForwarded ==
    (/\ ReachedResolver
     /\ MarkedPassthrough(last.matched)
     /\ HasBaseUrl(project))
    => /\ last.outcome.forwarder
       /\ last.outcome.kind # "mock"

\* the latest request was reported to the Request Log
LoggedLast == last.via # "none" /\ last.outcome.entries # <<>> /\ reqlog # <<>>

\* C14: the Request Log entry of a request that was forwarded upstream has
\* proxied = true, and the entry of a mocked request does not.
C14_ForwardedEntriesProxied ==
    LoggedLast =>
        /\ last.outcome.upstream => reqlog[1].proxied = "true"
        /\ last.outcome.kind = "mock" => reqlog[1].proxied # "true"

\* C15: the Request Log entry of a mocked request names the scenario served,
\* and its from-override flag is true exactly when the request's override
\* named a scenario of the resource, which is then the one served; it is
\* false when the override named an absent scenario and a fallback was served.
C15_FromOverrideOnlyWhenServed ==
    (LoggedLast /\ last.outcome.kind = "mock") =>
        /\ reqlog[1].scenario = last.outcome.scenario
        /\ reqlog[1].scenarioFromHeader = "true"
              <=> /\ last.req.scenarioHeader \in ScenarioNames(last.matched.scenarios)
                  /\ last.outcome.scenario = last.req.scenarioHeader

\* the request target up to its query string
RECURSIVE WithoutQuery(_)
WithoutQuery(url) ==
    IF url = <<>> \/ Head(url) = "?" THEN <<>>
    ELSE <<Head(url)>> \o WithoutQuery(Tail(url))

\* the latest request was resolved against the project's resources
Resolved == last.via # "none" /\ last.outcome.kind \notin {"null", "nocontext"}

\* C23: a request is resolved to the resource and the scenario that the
\* request of the same method and path without its query string has, on the
\* direct-connect path and on the proxy path alike (`/u?q` resolves like `/u`).
C23_QueryStringIgnored ==
    Resolved =>
        LET bare == HandleRequest(last.req.method, WithoutQuery(last.req.url), resources,
                                  project.activeScenario, last.req.scenarioHeader)
        IN  /\ last.matched =
                  MatchRequest(last.req.method, WithoutQuery(last.req.url), resources)
            /\ last.outcome.kind = "mock" => last.outcome.scenario = bare.scenario

\* the latest request matched no resource and was decided by a handler
Unmatched ==
    /\ last.via # "none"
    /\ last.matched = NoMatch
    /\ last.outcome.kind \notin {"null", "nocontext"}

\* C10 as stated: on either path an unmatched request is forwarded upstream
\* iff the project has passthrough enabled and a base URL; otherwise it is
\* answered 404 and no upstream call is made.
C10_SameNoMatchDecision ==
    Unmatched =>
        /\ last.outcome.upstream <=> (project.passthroughEnabled /\ HasBaseUrl(project))
        /\ ~(project.passthroughEnabled /\ HasBaseUrl(project))
              => (last.outcome.statusCode = 404 /\ ~last.outcome.forwarder)

\* C10 amended: the direct-connect handler hands an unmatched request to the
\* forwarder iff the project has passthrough enabled and a base URL, and
\* otherwise answers 404 with no upstream call; the proxy path hands every
\* unmatched request it handles to the forwarder, whatever the passthrough flag.
C10_DirectIfEnabledProxyAlways ==
    Unmatched =>
        /\ last.via = "direct" =>
              /\ last.outcome.forwarder
                    <=> (project.passthroughEnabled /\ HasBaseUrl(project))
              /\ ~last.outcome.forwarder
                    => (last.outcome.statusCode = 404 /\ ~last.outcome.upstream)
        /\ last.via = "proxy" =>
              /\ last.outcome.forwarder
              /\ last.outcome.upstream
              /\ last.outcome.kind = "forward"

\* the proxy forwarded an unmatched request of a project with passthrough off
C10_Witness ==
    /\ Unmatched
    /\ last.via = "proxy"
    /\ ~project.passthroughEnabled
    /\ last.outcome.upstream
    /\ last.outcome.statusCode = 200

\* ------------------------------------------------------------------------
\* A session: several requests, on the direct port and through one tunnel's
\* host, while the project is edited (routes/mock.ts, services/proxy-handler.ts,
\* services/projects.ts)
\* ------------------------------------------------------------------------

\* requests explored in SessionSpec
MaxSession == 2

SessionHost == "api.example.com"

SessionProject ==
    [id |-> "p1", baseUrl |-> "http://api.example.com:8080/v1",
     passthroughEnabled |-> FALSE, activeScenario |-> "default"]

SessionResources ==
    <<Res("r1", "GET", PathU, <<ScActive, ScDefault, ScHeader>>)>>

SessionRequests ==
    [method : {"GET"}, url : {PathU, PathX}, scenarioHeader : ScenarioHeaders]

\* mockRequestHandler: getActiveProject() and listResources() are read anew
SessionDirectRequest ==
    /\ handled < MaxSession
    /\ \E req \in SessionRequests :
          LET o == MockRequestHandler(project, resources, req, "200")
          IN  /\ last' = [via |-> "direct", req |-> req, host |-> Undefined,
                          matched |-> MatchRequest(req.method, ExpressPath(req.url), resources),
                          outcome |-> o]
              /\ reqlog' = Logged(reqlog, o.entries)
    /\ handled' = handled + 1
    /\ UNCHANGED <<project, resources, cacheVars, conns, tunnelVars, restVars, storeVars>>

\* resolveProxyRequest: getActiveProject() and listResources() are read anew
SessionProxyRequest ==
    /\ handled < MaxSession
    /\ \E req \in SessionRequests :
          LET o == ResolveProxyRequest(project, resources, req, SessionHost, "200")
          IN  /\ last' = [via |-> "proxy", req |-> req, host |-> SessionHost,
                          matched |-> MatchRequest(req.method, req.url, resources),
                          outcome |-> o]
              /\ reqlog' = Logged(reqlog, o.entries)
    /\ handled' = handled + 1
    /\ UNCHANGED <<project, resources, cacheVars, conns, tunnelVars, restVars, storeVars>>

\* updateProject(id, { activeScenario })
UpdateActiveScenario ==
    /\ project # NoProject
    /\ \E name \in {"default", "active", "missing"} :
          /\ name # project.activeScenario
          /\ project' = [project EXCEPT !.activeScenario = name]
    /\ UNCHANGED <<resources, reqlog, last, handled, cacheVars, conns, tunnelVars, restVars, storeVars>>

\* deleteScenario(projectId, resourceId, 'active')
DeleteActiveNamedScenario ==
    /\ \E i \in 1..Len(resources) :
          /\ \E j \in 1..Len(resources[i].scenarios) : resources[i].scenarios[j].name = "active"
          /\ resources' = [resources EXCEPT ![i].scenarios =
                              SelectSeq(resources[i].scenarios, LAMBDA sc : sc.name # "active")]
    /\ UNCHANGED <<project, reqlog, last, handled, cacheVars, conns, tunnelVars, restVars, storeVars>>

SessionInit ==
    /\ CacheConstructed(ProxyCacheMaxSize)
    /\ conns = [c \in ConnIds |-> FreshConn]
    /\ project = SessionProject
    /\ resources = SessionResources
    /\ reqlog = <<>>
    /\ last = NoLast
    /\ handled = 0
    /\ TunnelIdle
    /\ RestIdle

SessionNext ==
    \/ SessionDirectRequest
    \/ SessionProxyRequest
    \/ UpdateActiveScenario
    \/ DeleteActiveNamedScenario

\* C24: a request changes neither the project nor its resources, and the
\* scenario it is served is decided by its own override and by the active
\* scenario and the resource's scenarios as they are when it is handled: an
\* override on an earlier request has no effect on it, on the direct port
\* and through the tunnel's host alike.
C24_NoStateBetweenRequests ==
    [][ handled' = handled + 1 =>
          /\ project' = project
          /\ resources' = resources
          /\ last'.matched # NoMatch =>
                /\ last'.matched \in Range(resources)
                /\ last'.outcome.kind = "mock"
                /\ LET served == FirstCandidate(last'.matched.scenarios,
                                     <<IF last'.req.scenarioHeader # Undefined
                                       THEN last'.req.scenarioHeader
                                       ELSE project.activeScenario,
                                       "default">>)
                   IN  /\ last'.outcome.scenario = served.name
                       /\ last'.outcome.statusCode = served.statusCode ]_vars

\* a request without an override was served the active scenario right after
\* a request whose override was served
C24_Witness ==
    /\ handled = 2
    /\ Len(reqlog) = 2
    /\ reqlog[2].scenario = "header"
    /\ reqlog[2].scenarioFromHeader = "true"
    /\ last.req.scenarioHeader = Undefined
    /\ project.activeScenario = "active"
    /\ last.outcome.scenario = "active"

\* ------------------------------------------------------------------------
\* The MITM tunnel (services/proxy-server.ts, handleConnect's data handler)
\*
\* A byte stream is a sequence of tokens. "CR" and "LF" are the two bytes of
\* a line end, "SP" a space, ":" a colon, a digit token one decimal digit and
\* "b" one body byte; a word token ("GET", "content-length", "x-upload-", ...)
\* stands for the bytes of that word, lower-cased where the code ignores
\* case. Data events cut the stream between tokens.
\* ------------------------------------------------------------------------

\* requests one client pipelines on the tunnel
MaxPipelined == 2

\* `hostname` of the CONNECT line, captured by the data handler
TunnelHost == "api.example.com"

Min(S) == CHOOSE x \in S : \A y \in S : x <= y

\* buffer.indexOf('\r\n\r\n'), zero-based; -1 when absent
IndexOfHeaderEnd(buf) ==
    LET at == { i \in 0..(Len(buf) - 4) :
                  /\ buf[i + 1] = "CR" /\ buf[i + 2] = "LF"
                  /\ buf[i + 3] = "CR" /\ buf[i + 4] = "LF" }
    IN  IF at = {} THEN -1 ELSE Min(at)

\* \s of the regular expression
IsSpace(t) == t \in {"SP", "CR", "LF"}

Digits == <<"0", "1", "2", "3", "4", "5", "6", "7", "8", "9">>

\* \d of the regular expression
IsDigit(t) == \E d \in 1..10 : Digits[d] = t

DigitValue(t) == (CHOOSE d \in 1..10 : Digits[d] = t) - 1

\* the index after the run of \s* that starts at i
RECURSIVE SkipSpace(_, _)
SkipSpace(str, i) ==
    IF i <= Len(str) /\ IsSpace(str[i]) THEN SkipSpace(str, i + 1) ELSE i

\* parseInt(m[1], 10) of the run of (\d+) that starts at i
RECURSIVE ParseInt(_, _, _)
ParseInt(str, i, acc) ==
    IF i <= Len(str) /\ IsDigit(str[i])
    THEN ParseInt(str, i + 1, acc * 10 + DigitValue(str[i]))
    ELSE acc

\* /content-length:\s*(\d+)/i matches at position i of the header string
ContentLengthAt(str, i) ==
    /\ i + 1 <= Len(str)
    /\ str[i] = "content-length"
    /\ str[i + 1] = ":"
    /\ SkipSpace(str, i + 2) <= Len(str)
    /\ IsDigit(str[SkipSpace(str, i + 2)])

\* headerStr.match(/content-length:\s*(\d+)/i): the leftmost match anywhere
\* in the header string, whatever precedes it
ContentLengthMatches(str) == { i \in 1..Len(str) : ContentLengthAt(str, i) }

\* contentLengthMatch ? parseInt(contentLengthMatch[1], 10) : 0
ContentLength(str) ==
    IF ContentLengthMatches(str) = {} THEN 0
    ELSE ParseInt(str, SkipSpace(str, Min(ContentLengthMatches(str)) + 2), 0)

\* str.split(sep) for a one-token separator
RECURSIVE Split(_, _)
Split(str, sep) ==
    IF \E i \in 1..Len(str) : str[i] = sep
    THEN LET i == Min({ j \in 1..Len(str) : str[j] = sep })
         IN  <<SubSeq(str, 1, i - 1)>> \o Split(SubSeq(str, i + 1, Len(str)), sep)
    ELSE <<str>>

\* headerSection.split('\r\n')
RECURSIVE SplitLines(_)
SplitLines(str) ==
    IF \E i \in 1..(Len(str) - 1) : str[i] = "CR" /\ str[i + 1] = "LF"
    THEN LET i == Min({ j \in 1..(Len(str) - 1) : str[j] = "CR" /\ str[j + 1] = "LF" })
         IN  <<SubSeq(str, 1, i - 1)>> \o SplitLines(SubSeq(str, i + 2, Len(str)))
    ELSE <<str>>

\* String.prototype.trim
RECURSIVE Trim(_)
Trim(str) ==
    IF str # <<>> /\ IsSpace(Head(str)) THEN Trim(Tail(str))
    ELSE IF str # <<>> /\ IsSpace(str[Len(str)]) THEN Trim(SubSeq(str, 1, Len(str) - 1))
    ELSE str

\* the string a token sequence spells, for the words compared by the resolver
Word(str) == IF Len(str) = 1 THEN str[1] ELSE IF str = <<>> THEN "" ELSE "?"

\* the loop of parseHttpRequest over lines[1..]: the header lines that have a
\* colon after their first byte, as key and value
HeaderOf(line) ==
    LET colonIndex == Min({ j \in 1..Len(line) : line[j] = ":" })
    IN  [key |-> Trim(SubSeq(line, 1, colonIndex - 1)),
         value |-> Trim(SubSeq(line, colonIndex + 1, Len(line)))]

HasHeader(line) ==
    /\ \E j \in 1..Len(line) : line[j] = ":"
    /\ Min({ j \in 1..Len(line) : line[j] = ":" }) > 1

\* headers[key]: the value stored last under the key; <<Undefined>> when no
\* line stored one
HeaderGet(lines, key) ==
    LET at == { i \in 2..Len(lines) : HasHeader(lines[i]) /\ HeaderOf(lines[i]).key = key }
    IN  IF at = {} THEN <<Undefined>>
        ELSE HeaderOf(lines[CHOOSE i \in at : \A j \in at : j <= i]).value

NullRequest == [null |-> TRUE]

\* parseHttpRequest(data); request targets in absolute form are not part of
\* the alphabet
ParseHttpRequest(data) ==
    LET headerEndIndex == IndexOfHeaderEnd(data)
    IN  IF headerEndIndex = -1 THEN NullRequest
        ELSE LET lines == SplitLines(SubSeq(data, 1, headerEndIndex))
                 requestLine == lines[1]
                 parts == Split(requestLine, "SP")
             IN  IF requestLine = <<>> THEN NullRequest
                 ELSE IF Len(parts) < 2 THEN NullRequest
                 ELSE [method |-> Word(parts[1]),
                       url |-> parts[2],
                       scenarioHeader |-> Word(HeaderGet(lines, <<"x-mockmate-scenario">>))]

\* ---- the client's requests ----

RequestLine(method, path) ==
    <<method, "SP">> \o path \o <<"SP", "HTTP/1.1", "CR", "LF">>

HeaderLine(name, value) == name \o <<":", "SP", value, "CR", "LF">>

EndOfHeaders == <<"CR", "LF">>

\* the bytes of each kind of request the client sends
RequestBytes(kind) ==
    CASE kind = "get"    -> RequestLine("GET", PathU) \o EndOfHeaders
      [] kind = "post"   -> RequestLine("POST", PathU)
                            \o HeaderLine(<<"content-length">>, "2")
                            \o EndOfHeaders \o <<"b", "b">>
      [] kind = "miss"   -> RequestLine("GET", PathX) \o EndOfHeaders
      [] kind = "slow"   -> RequestLine("GET", PathU)
                            \o HeaderLine(<<"x-mockmate-scenario">>, "header")
                            \o EndOfHeaders
      [] kind = "upload" -> RequestLine("GET", PathU)
                            \o HeaderLine(<<"x-upload-", "content-length">>, "1")
                            \o EndOfHeaders
      [] kind = "bad"    -> <<"GET", "CR", "LF">> \o EndOfHeaders

RequestKinds == {"get", "post", "miss", "slow", "upload", "bad"}

Scripts == UNION { [1..n -> RequestKinds] : n \in 1..MaxPipelined }

\* the byte stream of a script
RECURSIVE Stream(_)
Stream(sc) == IF sc = <<>> THEN <<>> ELSE RequestBytes(Head(sc)) \o Stream(Tail(sc))

\* the project and the resources behind the tunnel's host
TunnelProject ==
    [id |-> "p1", baseUrl |-> "http://api.example.com:8080/v1",
     passthroughEnabled |-> FALSE, activeScenario |-> "active"]

TunnelResources ==
    <<Res("r1", "GET", PathU, <<ScActive, ScDefault, ScHeader>>),
      Res("r2", "POST", PathU, <<ScDefault>>)>>

\* ---- the data handler ----

Response(k, statusCode) == [k |-> k, statusCode |-> statusCode]

\* the handler's synchronous part found no complete request: `return`
NeedMoreData(buf) ==
    \/ IndexOfHeaderEnd(buf) = -1
    \/ Len(buf) < IndexOfHeaderEnd(buf) + 4
                     + ContentLength(SubSeq(buf, 1, IndexOfHeaderEnd(buf)))

\* totalExpected = headerEnd + 4 + contentLength
TotalExpected(buf) ==
    IndexOfHeaderEnd(buf) + 4 + ContentLength(SubSeq(buf, 1, IndexOfHeaderEnd(buf)))

\* one request leaves the buffer and is answered or left awaiting its result
Dispatch(buf) ==
    LET totalExpected == TotalExpected(buf)
        requestData == SubSeq(buf, 1, totalExpected)
        parsed == ParseHttpRequest(requestData)
        k == Len(dispatched) + 1
        from == delivered' - Len(buf)
        o == IF parsed = NullRequest THEN NullOutcome
             ELSE ResolveProxyRequest(project, resources, parsed, TunnelHost, "200")
    IN  /\ buffer' = SubSeq(buf, totalExpected + 1, Len(buf))
        /\ dispatched' = Append(dispatched, [from |-> from, to |-> from + totalExpected])
        /\ IF parsed = NullRequest
           THEN /\ written' = Append(written, Response(k, 400))
                /\ UNCHANGED <<pending, reqlog>>
           ELSE IF o.kind = "null"
           THEN /\ written' = Append(written, Response(k, 502))
                /\ UNCHANGED <<pending, reqlog>>
           ELSE IF o.kind = "forward"
           THEN /\ pending' = pending \cup
                        {[k |-> k, kind |-> "upstream", delay |-> 0, req |-> parsed,
                          outcome |-> o]}
                /\ UNCHANGED <<written, reqlog>>
           ELSE IF o.delay > 0
           THEN /\ pending' = pending \cup
                        {[k |-> k, kind |-> "timer", delay |-> o.delay, req |-> parsed,
                          outcome |-> o]}
                /\ UNCHANGED <<written, reqlog>>
           ELSE /\ written' = Append(written, Response(k, o.statusCode))
                /\ reqlog' = Logged(reqlog, o.entries)
                /\ UNCHANGED pending

\* tlsSocket.on('data', async (chunk) => ...): one data event carrying the
\* next n bytes of the client's stream. The handler runs to its first pending
\* await; a result that needs no timer and no upstream call is written in the
\* microtask that follows, before any other event.
OnData ==
    /\ \E n \in 1..(Len(Stream(script)) - delivered) :
          LET chunk == SubSeq(Stream(script), delivered + 1, delivered + n)
              buf == buffer \o chunk
          IN  /\ delivered' = delivered + n
              /\ IF NeedMoreData(buf)
                 THEN /\ buffer' = buf
                      /\ UNCHANGED <<dispatched, pending, written, reqlog>>
                 ELSE Dispatch(buf)
    /\ UNCHANGED <<script, project, resources, last, handled, cacheVars, conns, restVars, storeVars>>

\* setTimeout(resolve, responseConfig.delay) fires for a suspended handler; of
\* two timers the one set earlier with a delay no longer fires first
DelayElapsed ==
    /\ \E h \in pending :
          /\ h.kind = "timer"
          /\ \A g \in pending : (g.kind = "timer" /\ g.k < h.k) => g.delay > h.delay
          /\ pending' = pending \ {h}
          /\ reqlog' = Logged(reqlog, h.outcome.entries)
          /\ written' = Append(written, Response(h.k, h.outcome.statusCode))
    /\ UNCHANGED <<script, delivered, buffer, dispatched>>
    /\ UNCHANGED <<project, resources, last, handled, cacheVars, conns, restVars, storeVars>>

\* forwardRequest settles for a suspended handler: the real server answered,
\* refused or timed out
UpstreamSettled ==
    /\ \E h \in pending, up \in UpstreamReplies :
          LET o == ForwardRequest(TunnelProject, h.req, up)
          IN  /\ h.kind = "upstream"
              /\ pending' = pending \ {h}
              /\ reqlog' = Logged(reqlog, o.entries)
              /\ written' = Append(written, Response(h.k, o.statusCode))
    /\ UNCHANGED <<script, delivered, buffer, dispatched>>
    /\ UNCHANGED <<project, resources, last, handled, cacheVars, conns, restVars, storeVars>>

\* deleteProject(id) of the active project: getActiveProject() returns null
DeleteActiveProject ==
    /\ project # NoProject
    /\ project' = NoProject
    /\ UNCHANGED <<resources, reqlog, last, handled, cacheVars, conns, tunnelVars, restVars, storeVars>>

TunnelInit ==
    /\ CacheConstructed(ProxyCacheMaxSize)
    /\ conns = [c \in ConnIds |-> FreshConn]
    /\ project = TunnelProject
    /\ resources = TunnelResources
    /\ reqlog = <<>>
    /\ last = NoLast
    /\ handled = 0
    /\ script \in Scripts
    /\ delivered = 0
    /\ buffer = <<>>
    /\ dispatched = <<>>
    /\ pending = {}
    /\ written = <<>>
    /\ RestIdle

TunnelNext == OnData \/ DelayElapsed \/ UpstreamSettled \/ DeleteActiveProject

\* ---- claims about the tunnel ----

\* where the client's k-th request ends in its byte stream: its header bytes,
\* the four terminator bytes and as many body bytes as its Content-Length
\* header says (none without that header)
EndOffset(k) == Len(Stream(SubSeq(script, 1, k)))

StartOffset(k) == IF k = 1 THEN 0 ELSE EndOffset(k - 1)

\* all bytes of the client's k-th request were delivered
Arrived(k) == k <= Len(script) /\ delivered >= EndOffset(k)

\* a response was written for exactly the bytes of the client's k-th request
Answered(k) ==
    /\ k <= Len(script)
    /\ \E i \in 1..Len(written) :
          dispatched[written[i].k] = [from |-> StartOffset(k), to |-> EndOffset(k)]

\* C1: on one tunnel requests are resolved one at a time and answered in
\* arrival order: while a dispatched request awaits its response (a scenario
\* delay or an upstream call) no later request has been dispatched, and the
\* responses are written in dispatch order.
C1_OneInFlightInOrder ==
    /\ \A h \in pending : h.k = Len(dispatched)
    /\ \A i, j \in 1..Len(written) : i < j => written[i].k < written[j].k

\* C2: every complete request that has arrived on the tunnel is eventually
\* answered without further bytes from the client, also when one data event
\* delivered two or more complete requests.
C2_EveryArrivedRequestAnswered ==
    \A k \in 1..MaxPipelined : Arrived(k) ~> Answered(k)

\* C3: a request is dispatched only once its header terminator and its
\* Content-Length body bytes (0 without the header) are buffered; each
\* dispatch takes exactly the bytes of one request, headerLength + 4 +
\* Content-Length, and the rest stays buffered: every delivered byte is in
\* exactly one dispatched request or still in the buffer.
C3_FramedByContentLength ==
    /\ Len(dispatched) <= Cardinality({ k \in 1..Len(script) : Arrived(k) })
    /\ \A i \in 1..Len(dispatched) :
          dispatched[i] = [from |-> StartOffset(i), to |-> EndOffset(i)]
    /\ buffer = SubSeq(Stream(script),
                       (IF dispatched = <<>> THEN 0
                        ELSE dispatched[Len(dispatched)].to) + 1,
                       delivered)
    /\ Len(written) + Cardinality(pending) = Len(dispatched)

\* the bytes a dispatch took from the client's stream
DispatchedBytes(d) == SubSeq(Stream(script), d.from + 1, d.to)

\* this step dispatched a request that parseHttpRequest accepts
DispatchesWellFormed ==
    /\ Len(dispatched') = Len(dispatched) + 1
    /\ ParseHttpRequest(DispatchedBytes(dispatched'[Len(dispatched')])) # NullRequest

\* this step wrote one response
WritesResponse == Len(written') = Len(written) + 1

LastWritten == written'[Len(written')]

\* C12: with no active project a request is answered 503, by the direct
\* handler and on an established tunnel whose project was cleared.
C12_NoProjectAnswered503 ==
    [][/\ (DispatchesWellFormed /\ project = NoProject)
            => (WritesResponse /\ LastWritten.statusCode = 503)
       /\ (last' # last /\ last'.via = "direct" /\ project = NoProject)
            => last'.outcome.statusCode = 503]_vars

\* C13: every request completed on the tunnel adds exactly one entry to the
\* Request Log, with the request's method and path and the status code that
\* was written to the client.
C13_OneLogEntryPerResponse ==
    [][(WritesResponse
        /\ ParseHttpRequest(DispatchedBytes(dispatched'[LastWritten.k])) # NullRequest)
       => /\ Len(reqlog') = Len(reqlog) + 1
          /\ SubSeq(reqlog', 2, Len(reqlog')) = reqlog
          /\ reqlog'[1].statusCode = LastWritten.statusCode
          /\ reqlog'[1].method
               = ParseHttpRequest(DispatchedBytes(dispatched'[LastWritten.k])).method
          /\ reqlog'[1].path
               = ParseHttpRequest(DispatchedBytes(dispatched'[LastWritten.k])).url]_vars

\* every dispatched request that parseHttpRequest rejects has its 400 written
MalformedAnswered400 ==
    \A i \in 1..Len(dispatched) :
        ParseHttpRequest(DispatchedBytes(dispatched[i])) = NullRequest
            => \E j \in 1..Len(written) : written[j] = Response(i, 400)

\* the client's k-th request follows one without a usable request line
AfterMalformed(k) ==
    /\ k <= Len(script)
    /\ \E j \in 1..(k - 1) : script[j] = "bad"

\* C18: a framed request whose request line is missing or has fewer than two
\* tokens is answered 400, and the requests pipelined after it on the same
\* tunnel are still answered once they have arrived.
C18_MalformedThenNextProcessed ==
    /\ []MalformedAnswered400
    /\ \A k \in 2..MaxPipelined : (Arrived(k) /\ AfterMalformed(k)) ~> Answered(k)

\* ------------------------------------------------------------------------
\* The Mock Registry: resources and their scenarios (services/resources.ts)
\* ------------------------------------------------------------------------

\* resources per project and scenarios per project explored in RegistrySpec
MaxResources == 2
MaxScenarios == 3

\* resource files per project explored in ResourceSpec
MaxStored == 2

\* scenario names a caller may pass
RequestedScenarioNames == {"default", " default", "error"}

\* String.prototype.trim on the names of the model
TrimName(name) ==
    CASE name = " default" -> "default"
      [] name = " "        -> ""
      [] OTHER             -> name

\* a deleteScenario that protects no name
ProtectsNoName(scenarioName) == FALSE

\* `scenarioName === 'default'`, the guard at the head of deleteScenario
ProtectsDefault(scenarioName) == scenarioName = "default"

\* number of scenarios the listed resources hold together
RECURSIVE ScenarioCount(_)
ScenarioCount(list) ==
    IF list = <<>> THEN 0 ELSE Len(Head(list).scenarios) + ScenarioCount(Tail(list))

\* resource.scenarios.some(s => s.name === name)
HasScenario(resource, name) ==
    \E j \in 1..Len(resource.scenarios) : resource.scenarios[j].name = name

\* paths a caller may pass: `/u/i`, `u` and the empty string
PathUI == <<"/", "u", "/", "i">>
PathNoSlash == <<"u">>
PathEmpty == <<>>

\* resourcePath.startsWith('/')
StartsWithSlash(path) == Len(path) > 0 /\ path[1] = "/"

\* the four replace() calls of generateResourceFilename, on the path's
\* characters: the leading slash goes, colons go, other slashes become `_`
CleanPath(path) ==
    LET body   == IF StartsWithSlash(path) THEN Tail(path) ELSE path
        plain  == SelectSeq(body, LAMBDA ch : ch # ":")
    IN  [k \in 1..Len(plain) |-> IF plain[k] = "/" THEN "_" ELSE plain[k]]

\* generateResourceFilename(method, path) => `${method}_${cleanPath}.json`
GenerateResourceFilename(method, path) == <<method, "_">> \o CleanPath(path) \o <<".json">>

\* a resource as one file of the project's resources directory holds it
Stored(file, id, method, path, scenarios) ==
    [id |-> id, method |-> method, path |-> path, scenarios |-> scenarios,
     file |-> file]

\* fs.existsSync(filePath) in the resources directory
FileExists(file) == \E i \in 1..Len(resources) : resources[i].file = file

\* the listing after the files `gone` are deleted or overwritten and the resource `saved`
\* is saved: createdAt is kept, so the resource read at index i keeps its place
Rewritten(i, saved, gone) ==
    LET kept(list) == SelectSeq(list, LAMBDA r : r.file \notin gone)
    IN  kept(SubSeq(resources, 1, i - 1)) \o <<saved>>
           \o kept(SubSeq(resources, i, Len(resources)))

\* listResources(projectId).find(r => r.id === resourceId), 0 when not found
ResourceIndex(id) ==
    IF \E i \in 1..Len(resources) : resources[i].id = id
    THEN Min({ i \in 1..Len(resources) : resources[i].id = id })
    ELSE 0

\* generateId('res'): an id no stored resource has
ResourceIds == <<"r1", "r2", "r3", "r4">>
GenerateId ==
    ResourceIds[Min({ k \in 1..Len(ResourceIds) :
                        \A i \in 1..Len(resources) : resources[i].id # ResourceIds[k] })]

\* ids a caller may pass: those of the stored resources
KnownIds == { resources[i].id : i \in 1..Len(resources) }

\* a call of a scenario operation: what was asked, how it ended
Called(fn, scenarioName, error, changed) ==
    [fn |-> fn, scenarioName |-> scenarioName, threw |-> error # "none",
     error |-> error, changed |-> changed]

\* a call of a resource operation
CalledWith(fn, method, path, error, changed) ==
    [fn |-> fn, scenarioName |-> Undefined, method |-> method, path |-> path,
     threw |-> error # "none", error |-> error, changed |-> changed]

\* createResource(projectId, { method, path }): listResources puts the newest first
CreateResourceOf(methods, paths, cap) ==
    /\ \E method \in methods, path \in paths :
          LET filename == GenerateResourceFilename(method, path)
              error == IF ~Truthy(method) \/ Len(path) = 0 THEN "required"
                       ELSE IF ~StartsWithSlash(path) THEN "must start with /"
                       ELSE IF FileExists(filename) THEN "already exists"
                       ELSE "none"
          IN  IF error # "none"
              THEN /\ call' = CalledWith("createResource", method, path, error, FALSE)
                   /\ UNCHANGED resources
              ELSE /\ Len(resources) < cap
                   /\ resources' =
                         <<Stored(filename, GenerateId, method, path,
                                  <<Sc("default", 200, 0)>>)>> \o resources
                   /\ call' = CalledWith("createResource", method, path, error, TRUE)
    /\ UNCHANGED <<project, reqlog, last, handled, cacheVars, conns, tunnelVars,
                   blind, certVars, storeVars>>

\* an updateResource that deletes the old file before it looks for a conflict
OldFileDeletedWhenUpdateThrows(oldFilename) ==
    SelectSeq(resources, LAMBDA r : r.file # oldFilename)

\* the directory when updateResource throws: both throws come before
\* deleteFile and writeJsonFile
WhenUpdateThrows(oldFilename) == resources

\* updates.<field>, Undefined or NoPath when the request leaves it out
NoPath == <<Undefined>>
UpdateOf(method, path) == [method |-> method, path |-> path]

\* updateResource(projectId, resourceId, updates)
UpdateResourceOf(requests) ==
    /\ \E id \in KnownIds, updates \in requests :
          LET i == ResourceIndex(id)
              resource == resources[i]
              oldFilename == GenerateResourceFilename(resource.method, resource.path)
              method == IF updates.method = Undefined THEN resource.method ELSE updates.method
              path == IF updates.path = NoPath THEN resource.path ELSE updates.path
              givenMethod == updates.method # Undefined /\ Truthy(updates.method)
              givenPath == updates.path # NoPath /\ Len(updates.path) > 0
              newFilename == GenerateResourceFilename(method, path)
              error == IF givenPath /\ ~StartsWithSlash(updates.path) THEN "must start with /"
                       ELSE IF (givenMethod \/ givenPath) /\ newFilename # oldFilename
                               /\ FileExists(newFilename)
                            THEN "already exists"
                       ELSE "none"
              saved == [resource EXCEPT !.method = method, !.path = path,
                                          !.file = IF givenMethod \/ givenPath
                                                   THEN newFilename ELSE oldFilename]
          IN  IF error # "none"
              THEN /\ resources' = WhenUpdateThrows(oldFilename)
                   /\ call' = CalledWith("updateResource", method, path, error,
                                         resources' # resources)
              ELSE /\ resources' = Rewritten(i, saved, {oldFilename, saved.file})
                   /\ call' = CalledWith("updateResource", method, path, error,
                                         resources' # resources)
    /\ UNCHANGED <<project, reqlog, last, handled, cacheVars, conns, tunnelVars,
                   blind, certVars, storeVars>>

\* deleteResource(projectId, resourceId)
DeleteResource ==
    /\ \E id \in KnownIds :
          LET resource == resources[ResourceIndex(id)]
              filename == GenerateResourceFilename(resource.method, resource.path)
          IN  /\ resources' = SelectSeq(resources, LAMBDA r : r.file # filename)
              /\ call' = CalledWith("deleteResource", resource.method, resource.path,
                                    "none", resources' # resources)
    /\ UNCHANGED <<project, reqlog, last, handled, cacheVars, conns, tunnelVars,
                   blind, certVars, storeVars>>

\* the save at the end of a scenario operation: writeJsonFile under the
\* filename of the resource's method and path
Saved(i, scenarios) ==
    LET saved == [resources[i] EXCEPT
                       !.scenarios = scenarios,
                       !.file = GenerateResourceFilename(resources[i].method,
                                                         resources[i].path)]
    IN  Rewritten(i, saved, {saved.file})

\* addScenario(projectId, resourceId, { name, statusCode })
AddScenario ==
    /\ \E id \in KnownIds, name \in RequestedScenarioNames \cup {"", " "},
          statusCode \in {500} :
          LET i == ResourceIndex(id)
          IN  /\ ScenarioCount(resources) < MaxScenarios
              /\ IF ~Truthy(name) \/ TrimName(name) = ""
                 THEN /\ call' = Called("addScenario", name, "required", FALSE)
                      /\ UNCHANGED resources
                 ELSE IF HasScenario(resources[i], name)
                 THEN /\ call' = Called("addScenario", name, "already exists", FALSE)
                      /\ UNCHANGED resources
                 ELSE /\ resources' =
                            Saved(i, Append(resources[i].scenarios,
                                            Sc(TrimName(name), statusCode, 0)))
                      /\ call' = Called("addScenario", name, "none", TRUE)
    /\ UNCHANGED <<project, reqlog, last, handled, cacheVars, conns, tunnelVars,
                   blind, certVars, storeVars>>

\* findIndex(s => s.name === scenarioName), 0 for -1
ScenarioIndex(resource, scenarioName) ==
    IF HasScenario(resource, scenarioName)
    THEN Min({ j \in 1..Len(resource.scenarios) : resource.scenarios[j].name = scenarioName })
    ELSE 0

\* updateScenario(projectId, resourceId, scenarioName, { statusCode })
UpdateScenario ==
    /\ \E id \in KnownIds, scenarioName \in RequestedScenarioNames,
          statusCode \in {500} :
          LET i == ResourceIndex(id)
              j == ScenarioIndex(resources[i], scenarioName)
          IN  IF j = 0
              THEN /\ call' = Called("updateScenario", scenarioName, "not found", FALSE)
                   /\ UNCHANGED resources
              ELSE /\ resources' =
                         Saved(i, [resources[i].scenarios EXCEPT ![j].statusCode = statusCode])
                   /\ call' = Called("updateScenario", scenarioName, "none",
                                     resources' # resources)
    /\ UNCHANGED <<project, reqlog, last, handled, cacheVars, conns, tunnelVars,
                   blind, certVars, storeVars>>

\* duplicateScenario(projectId, resourceId, scenarioName, newName)
DuplicateScenario ==
    /\ \E id \in KnownIds, scenarioName \in RequestedScenarioNames,
          newName \in RequestedScenarioNames :
          LET i == ResourceIndex(id)
              j == ScenarioIndex(resources[i], scenarioName)
          IN  /\ ScenarioCount(resources) < MaxScenarios
              /\ IF j = 0
                 THEN /\ call' = Called("duplicateScenario", scenarioName, "not found", FALSE)
                      /\ UNCHANGED resources
                 ELSE IF HasScenario(resources[i], newName)
                 THEN /\ call' = Called("duplicateScenario", scenarioName, "already exists", FALSE)
                      /\ UNCHANGED resources
                 ELSE /\ resources' =
                            Saved(i, Append(resources[i].scenarios,
                                            [resources[i].scenarios[j]
                                                EXCEPT !.name = TrimName(newName)]))
                      /\ call' = Called("duplicateScenario", scenarioName, "none", TRUE)
    /\ UNCHANGED <<project, reqlog, last, handled, cacheVars, conns, tunnelVars,
                   blind, certVars, storeVars>>

\* deleteScenario(projectId, resourceId, scenarioName)
DeleteScenario ==
    /\ \E id \in KnownIds, scenarioName \in RequestedScenarioNames :
          LET i == ResourceIndex(id)
          IN  IF ProtectsDefault(scenarioName)
              THEN /\ call' = Called("deleteScenario", scenarioName, "protected", FALSE)
                   /\ UNCHANGED resources
              ELSE IF ScenarioIndex(resources[i], scenarioName) = 0
              THEN /\ call' = Called("deleteScenario", scenarioName, "not found", FALSE)
                   /\ UNCHANGED resources
              ELSE /\ resources' =
                         Saved(i, SelectSeq(resources[i].scenarios,
                                            LAMBDA sc : sc.name # scenarioName))
                   /\ call' = Called("deleteScenario", scenarioName, "none", TRUE)
    /\ UNCHANGED <<project, reqlog, last, handled, cacheVars, conns, tunnelVars,
                   blind, certVars, storeVars>>

\* the calls of RegistrySpec on resources
CreateResource == CreateResourceOf({"GET"}, {PathU, PathX, PathNoSlash}, MaxResources)
UpdateResource ==
    UpdateResourceOf({UpdateOf(Undefined, PathU), UpdateOf(Undefined, PathX),
                      UpdateOf(Undefined, PathNoSlash)})

RegistryInit ==
    /\ CacheConstructed(ProxyCacheMaxSize)
    /\ conns = [c \in ConnIds |-> FreshConn]
    /\ project = SessionProject
    /\ resources = <<>>
    /\ reqlog = <<>>
    /\ last = NoLast
    /\ handled = 0
    /\ TunnelIdle
    /\ RestIdle

RegistryNext ==
    \/ CreateResource \/ UpdateResource \/ DeleteResource
    \/ AddScenario \/ UpdateScenario \/ DuplicateScenario \/ DeleteScenario

\* the calls of ResourceSpec: any method and path on a few resources
CreateAnyResource ==
    CreateResourceOf({"GET", "POST", ""}, {PathUParam, PathUI, PathNoSlash}, MaxStored)
UpdateAnyResource ==
    UpdateResourceOf({UpdateOf(Undefined, PathEmpty), UpdateOf(Undefined, PathUI),
                      UpdateOf(Undefined, PathNoSlash), UpdateOf("POST", NoPath),
                      UpdateOf("GET", PathUParam)})

ResourceNext == CreateAnyResource \/ UpdateAnyResource \/ DeleteResource

\* C30: after any sequence of createResource, addScenario, updateScenario,
\* duplicateScenario and deleteScenario calls every stored resource has a
\* scenario named `default`, and deleteScenario for the name `default` throws
\* and leaves the resource as it was.
C30_DefaultScenarioKept ==
    /\ \A i \in 1..Len(resources) : "default" \in ScenarioNames(resources[i].scenarios)
    /\ (call.fn = "deleteScenario" /\ call.scenarioName = "default")
          => (call.threw /\ ~call.changed)

\* deleteScenario('default') was rejected on a resource holding two
\* scenarios, both named `default`
C30_Witness ==
    /\ call.fn = "deleteScenario"
    /\ call.scenarioName = "default"
    /\ call.threw
    /\ \E i \in 1..Len(resources) :
          /\ Len(resources[i].scenarios) = 2
          /\ \A j \in 1..2 : resources[i].scenarios[j].name = "default"

\* C31: after any sequence of createResource, updateResource and
\* deleteResource calls no two stored resources have the same method and the
\* same path.
C31_MethodAndPathUnique ==
    \A i, j \in 1..Len(resources) :
        (resources[i].method = resources[j].method /\ resources[i].path = resources[j].path)
           => i = j

\* C39: createResource is rejected as `already exists` only when the project
\* holds a resource with the same method and the same path (the rejected call
\* leaves the listing as it was, so the holder is still listed).
C39_RejectedOnlyForSameMethodAndPath ==
    (call.fn = "createResource" /\ call.error = "already exists")
       => \E i \in 1..Len(resources) :
             resources[i].method = call.method /\ resources[i].path = call.path

\* C40: a registry mutation that is rejected with an error leaves the stored
\* resources and scenarios exactly as they were before the call.
C40_RejectedCallChangesNothing ==
    [][call'.threw => resources' = resources]_vars

\* updateResource was rejected for a conflict with the other stored resource,
\* which holds a scenario added after its creation
C40_Witness ==
    /\ call.fn = "updateResource"
    /\ call.error = "already exists"
    /\ Len(resources) = 2
    /\ \E i \in 1..2 : Len(resources[i].scenarios) = 2

\* C35: after any sequence of addScenario, duplicateScenario, updateScenario
\* and deleteScenario calls no two scenarios of one resource have the same
\* name.
C35_ScenarioNamesUnique ==
    \A i \in 1..Len(resources) :
        \A j, k \in 1..Len(resources[i].scenarios) :
            resources[i].scenarios[j].name = resources[i].scenarios[k].name => j = k

\* ------------------------------------------------------------------------
\* Projects and the active project (services/projects.ts)
\* ------------------------------------------------------------------------

\* projects stored at once in ProjectSpec
MaxProjects == 2

\* project names a caller may pass
ProjectNames == {"Shop", "shop ", "Blog", "!", ""}

\* slugify(name) on the names of the model
Slugify(name) ==
    CASE name = "Shop"  -> "shop"
      [] name = "shop " -> "shop"
      [] name = "Blog"  -> "blog"
      [] OTHER          -> ""

\* ids a caller may pass: generateId('proj') values and one never generated
ProjectIds == <<"p1", "p2", "p3", "p4">>
GhostId == "ghost"

\* listProjects().find(p => p.id === id), 0 when not found
ProjectIndex(id) ==
    IF \E i \in 1..Len(projects) : projects[i].id = id
    THEN Min({ i \in 1..Len(projects) : projects[i].id = id })
    ELSE 0

\* ids a caller may pass
PassedIds == { projects[i].id : i \in 1..Len(projects) } \cup {GhostId}

\* a call of the project service
ProjectCall(fn, id, threw, wasActive) ==
    [fn |-> fn, id |-> id, threw |-> threw, wasActive |-> wasActive, before |-> config]

\* createProject({ name }): listProjects puts the newest first
CreateProject ==
    /\ \E name \in ProjectNames :
          LET slug == Slugify(name)
          IN  IF ~Truthy(name) \/ ~Truthy(slug)
                 \/ (\E i \in 1..Len(projects) : projects[i].slug = slug)
              THEN /\ call' = ProjectCall("createProject", Undefined, TRUE, FALSE)
                   /\ UNCHANGED projects
              ELSE /\ Len(projects) < MaxProjects
                   /\ LET id == ProjectIds[Min({ k \in 1..Len(ProjectIds) :
                                                    ProjectIndex(ProjectIds[k]) = 0 })]
                      IN  /\ projects' = <<[id |-> id, slug |-> slug,
                                            activeScenario |-> "default"]>> \o projects
                          /\ call' = ProjectCall("createProject", id, FALSE, FALSE)
    /\ UNCHANGED <<config, project, resolveVars, cacheVars, conns, tunnelVars,
                   blind, certVars, listener>>

\* a deleteProject that leaves the config as it is
ConfigKept(id) == config

\* deleteProject's `if (config.activeProjectId === id)`: the id is cleared
ConfigAfterDelete(id) ==
    IF config.activeProjectId = id THEN [config EXCEPT !.activeProjectId = Undefined]
    ELSE config

\* deleteProject(id)
DeleteProject ==
    /\ \E id \in PassedIds :
          IF ProjectIndex(id) = 0
          THEN /\ call' = ProjectCall("deleteProject", id, TRUE, FALSE)
               /\ UNCHANGED <<projects, config>>
          ELSE /\ config' = ConfigAfterDelete(id)
               /\ projects' = SelectSeq(projects,
                                        LAMBDA p : p.slug # projects[ProjectIndex(id)].slug)
               /\ call' = ProjectCall("deleteProject", id, FALSE, config.activeProjectId = id)
    /\ UNCHANGED <<project, resolveVars, cacheVars, conns, tunnelVars, blind, certVars, listener>>

\* setActiveProject(id)
SetActiveProject ==
    /\ \E id \in PassedIds :
          IF ProjectIndex(id) = 0
          THEN /\ call' = ProjectCall("setActiveProject", id, TRUE, FALSE)
               /\ UNCHANGED config
          ELSE /\ config' = [config EXCEPT !.activeProjectId = id]
               /\ call' = ProjectCall("setActiveProject", id, FALSE, config.activeProjectId = id)
    /\ UNCHANGED <<projects, project, resolveVars, cacheVars, conns, tunnelVars,
                   blind, certVars, listener>>

\* getActiveProject(): what it returns is kept in `project`
GetActiveProject ==
    /\ IF config.activeProjectId = Undefined
       THEN /\ project' = NoProject
            /\ UNCHANGED config
       ELSE IF ProjectIndex(config.activeProjectId) = 0
       THEN /\ project' = NoProject
            /\ config' = [config EXCEPT !.activeProjectId = Undefined]
       ELSE /\ project' = projects[ProjectIndex(config.activeProjectId)]
            /\ UNCHANGED config
    /\ call' = ProjectCall("getActiveProject", config.activeProjectId, FALSE, FALSE)
    /\ UNCHANGED <<projects, resolveVars, cacheVars, conns, tunnelVars, blind, certVars, listener>>

ProjectInit ==
    /\ CacheConstructed(ProxyCacheMaxSize)
    /\ conns = [c \in ConnIds |-> FreshConn]
    /\ project = NoProject
    /\ ResolveIdle
    /\ TunnelIdle
    /\ RestIdle

ProjectNext == CreateProject \/ DeleteProject \/ SetActiveProject \/ GetActiveProject

\* C32: after any sequence of createProject, setActiveProject, deleteProject
\* and getActiveProject calls the stored active id is that of at most one
\* project and, once a call has returned, of a stored one; getActiveProject
\* returns null or a stored project; deleting the active project clears the
\* stored id; setActiveProject with an unknown id throws and leaves the
\* stored id as it was.
C32_ActiveProjectExists ==
    /\ Cardinality({ i \in 1..Len(projects) : projects[i].id = config.activeProjectId }) <= 1
    /\ config.activeProjectId # Undefined => ProjectIndex(config.activeProjectId) # 0
    /\ call.fn = "getActiveProject"
          => (project = NoProject \/ \E i \in 1..Len(projects) : projects[i] = project)
    /\ (call.fn = "deleteProject" /\ call.wasActive) => config.activeProjectId = Undefined
    /\ (call.fn = "setActiveProject" /\ call.id = GhostId) => (call.threw /\ config = call.before)

\* the active project was deleted while another project stays stored
C32_Witness ==
    /\ call.fn = "deleteProject"
    /\ call.wasActive
    /\ call.before.activeProjectId # Undefined
    /\ Len(projects) = 1

\* ------------------------------------------------------------------------
\* The listener and the plain-HTTP proxy path (services/proxy-server.ts,
\* createProxyServer's connection handler and handleHttpProxy)
\* ------------------------------------------------------------------------

\* parseHttpRequest(firstChunk) and parsed.headers['host'] for the first
\* chunks of the model: one that does not parse, one without Host, one for
\* the project's host, one for another host
NoChunk == [parsed |-> FALSE, host |-> "<none>"]
HttpChunks ==
    {[parsed |-> FALSE, host |-> Undefined]}
       \cup [parsed : {TRUE}, host : {Undefined, "api.example.com", "other.test"}]

\* a socket the listener accepted, with the first chunk of the plain-HTTP path
AcceptedConn ==
    [f \in DOMAIN FreshConn \cup {"chunk"} |->
        IF f = "chunk" THEN NoChunk ELSE FreshConn[f]]

\* the project the listener serves
ServedProject == ProjectWith("http://api.example.com:8080/v1")

\* clientSocket.end(raw)
Ended(conn, response) ==
    [conn EXCEPT !.state = "closed", !.written = Append(@, response)]

\* the first chunk starts with "CONNECT ": handleConnect returns
ServeConnect(c) ==
    /\ listener = "listening"
    /\ HandleConnect(c)

\* an exception thrown inside the listener of a socket's 'data' event and
\* caught by nobody: node prints it and exits
Uncaught == "terminated"

\* handleConnect when certCache.getCert(hostname) throws: the call is made
\* from the 'data' listener with no try around it, after the 200 was written
IssuanceFailure == Uncaught

\* the first chunk starts with "CONNECT " for the project's host, and
\* generateServerCert throws inside getCert's miss
ConnectIssuanceFails(c) ==
    /\ listener = "listening"
    /\ conns[c].state = "accepted"
    /\ \E t \in ConnectTargets \ {NoTarget} :
          /\ ShouldIntercept(project, t.host)
          /\ ~CacheHit(cache, t.host)
          /\ tick < MaxCalls
          /\ cache' = AfterEvict(cache, maxSize)
          /\ misses' = misses + 1
          /\ tick' = tick + 1
          /\ removed' = [d \in Domains |->
                            IF d \in MapKeys(cache) \ MapKeys(cache')
                            THEN removed[d] + 1 ELSE removed[d]]
          /\ UNCHANGED <<maxSize, hits, serial, issued, lastUse, ret>>
          /\ conns' = [conns EXCEPT ![c] =
                          [@ EXCEPT !.state = "failed", !.host = t.host,
                                    !.written = Append(@, "200 Connection Established"),
                                    !.certAsked = TRUE, !.seen = project]]
    /\ listener' = IssuanceFailure
    /\ UNCHANGED <<project, resolveVars, tunnelVars, restVars, projects, config>>

\* handleHttpProxy up to its first await: 400 for a chunk that does not parse
\* or has no Host header, else resolveProxyRequest is called
HttpFirstChunk(c) ==
    /\ listener = "listening"
    /\ conns[c].state = "accepted"
    /\ \E chunk \in HttpChunks :
          conns' = [conns EXCEPT ![c] =
                       IF ~chunk.parsed \/ chunk.host = Undefined
                       THEN Ended([@ EXCEPT !.chunk = chunk], "400 Bad Request")
                       ELSE [@ EXCEPT !.chunk = chunk, !.state = "resolving",
                                      !.host = chunk.host]]
    /\ UNCHANGED <<cacheVars, project, resolveVars, tunnelVars, restVars, storeVars>>

\* resolveProxyRequest settles: a response, null (the fetch starts), or a
\* rejection, which the catch turns into a 502
HttpResolved(c) ==
    /\ listener = "listening"
    /\ conns[c].state = "resolving"
    /\ \/ /\ ShouldIntercept(project, conns[c].host)
          /\ conns' = [conns EXCEPT ![c] = Ended(@, "engine response")]
       \/ /\ ~ShouldIntercept(project, conns[c].host)
          /\ conns' = [conns EXCEPT ![c].state = "fetching"]
       \/ conns' = [conns EXCEPT ![c] = Ended(@, "502 Bad Gateway")]
    /\ UNCHANGED <<cacheVars, project, resolveVars, tunnelVars, restVars, storeVars>>

\* fetch(`http://${host}${path}`) settles: the response is relayed, or the
\* catch answers 502
HttpFetched(c) ==
    /\ listener = "listening"
    /\ conns[c].state = "fetching"
    /\ \E response \in {"relayed response", "502 Bad Gateway"} :
          conns' = [conns EXCEPT ![c] = Ended(@, response)]
    /\ UNCHANGED <<cacheVars, project, resolveVars, tunnelVars, restVars, storeVars>>

ServerInit ==
    /\ CacheConstructed(ProxyCacheMaxSize)
    /\ project = ServedProject
    /\ conns = [c \in ConnIds |-> AcceptedConn]
    /\ ResolveIdle
    /\ TunnelIdle
    /\ RestIdle

ServerNext ==
    \E c \in ConnIds :
        \/ ServeConnect(c)
        \/ ConnectIssuanceFails(c)
        \/ HttpFirstChunk(c)
        \/ HttpResolved(c)
        \/ HttpFetched(c)

\* handleHttpProxy has been called on the connection
OnHttpPath(conn) == conn.chunk # NoChunk

\* C33: on the plain-HTTP proxy path every accepted connection receives
\* exactly one response and is then closed: once its first chunk has arrived,
\* the connection is eventually closed with one response written.
C33_EveryHttpConnectionAnswered ==
    \A c \in ConnIds :
        OnHttpPath(conns[c]) ~> (conns[c].state = "closed" /\ Len(conns[c].written) = 1)

\* the response of a closed plain-HTTP connection is the one its case calls for
HttpResponseOfItsCase ==
    \A c \in ConnIds :
        (OnHttpPath(conns[c]) /\ conns[c].state = "closed")
           => /\ Len(conns[c].written) = 1
              /\ (~conns[c].chunk.parsed \/ conns[c].chunk.host = Undefined)
                    => conns[c].written[1] = "400 Bad Request"
              /\ conns[c].written[1] = "engine response"
                    => ShouldIntercept(project, conns[c].host)
              /\ conns[c].written[1] = "relayed response"
                    => ~ShouldIntercept(project, conns[c].host)

\* C34: no failure while handling a connection terminates the listening
\* process.
C34_ListenerSurvives == listener = "listening"

\* ------------------------------------------------------------------------
\* The request log driven directly (services/logger.ts)
\* ------------------------------------------------------------------------

\* entries added in LogSpec: enough to fill the log and push entries out
MaxLogged == 102

\* addLogEntry(entry): generateId('log') gives the entry an id of its own,
\* here the number of the call
LogAdd ==
    /\ handled < MaxLogged
    /\ reqlog' = AddLogEntry(reqlog, [id |-> handled + 1])
    /\ handled' = handled + 1
    /\ UNCHANGED <<cacheVars, project, conns, resources, last, tunnelVars,
                   restVars, storeVars>>

\* clearLogEntries()
LogClear ==
    /\ reqlog # <<>>
    /\ reqlog' = <<>>
    /\ UNCHANGED <<cacheVars, project, conns, resources, last, handled, tunnelVars,
                   restVars, storeVars>>

LogInit ==
    /\ CacheConstructed(ProxyCacheMaxSize)
    /\ conns = [c \in ConnIds |-> FreshConn]
    /\ project = NoProject
    /\ ResolveIdle
    /\ TunnelIdle
    /\ RestIdle

LogNext == LogAdd \/ LogClear

\* C37: after any sequence of addLogEntry and clearLogEntries calls the log
\* holds at most 100 entries, newest first; adding an entry to a full log
\* drops the oldest entry and keeps the 99 newest existing ones in order.
C37_LogHoldsNewestHundred ==
    [][ /\ Len(reqlog') <= 100
        /\ \A i, j \in 1..Len(reqlog') : i < j => reqlog'[i].id > reqlog'[j].id
        /\ (handled' = handled + 1 /\ Len(reqlog) = 100)
              => reqlog' = <<[id |-> handled + 1]>> \o SubSeq(reqlog, 1, 99) ]_vars

\* an entry was added to a full log: the first entry of all is gone
C37_Witness ==
    /\ handled = 101
    /\ Len(reqlog) = 100
    /\ reqlog[1].id = 101
    /\ reqlog[100].id = 2

\* C38: the CertCache counters reflect the operations since construction or
\* the last clear(): each getCert call adds one to hits + misses, each miss
\* issues one certificate, a hit issues nothing and leaves the size as it
\* was, and clear() resets size, hits and misses to 0 and keeps maxSize.
C38_CountersReflectCalls ==
    [][ IF tick' = tick + 1
        THEN /\ hits' + misses' = hits + misses + 1
             /\ serial' - serial = misses' - misses
             /\ hits' = hits + 1 => (serial' = serial /\ Len(cache') = Len(cache))
        ELSE /\ Len(cache') = 0
             /\ hits' = 0
             /\ misses' = 0
             /\ maxSize' = maxSize ]_cacheVars

\* ------------------------------------------------------------------------
\* Certificates (services/certs/generator.ts, services/certs/manager.ts)
\*
\* A PEM text is a record: a certificate with the fields read back from it,
\* a private key, or text that does not parse. A name is the sequence of its
\* dot-separated labels, a label a sequence of digits and letter runs.
\* ------------------------------------------------------------------------

CA_VALIDITY_YEARS == 10
SERVER_VALIDITY_YEARS == 1
REGENERATE_THRESHOLD_DAYS == 30

\* clock units in the 1000 * 60 * 60 * 24 ms of validateCertificate
HalfDaysPerDay == 2

\* setFullYear(getFullYear() + n), leap days left out
DaysPerYear == 365

\* process starts, waits and damaged files explored in CertSpec
MaxStarts == 2
MaxWaits == 2
MaxDamaged == 1

\* text that certificateFromPem rejects
Garbage == [pem |-> "garbage"]

Localhost == << <<"localhost">> >>
Loopback == << <<"1", "2", "7">>, <<"0">>, <<"0">>, <<"1">> >>
LanAddress == << <<"1", "0">>, <<"0">>, <<"0">>, <<"5">> >>
ApiHost == << <<"api">>, <<"example">>, <<"com">> >>
ThreeNumbers == << <<"1">>, <<"2">>, <<"3">> >>
FiveNumbers == << <<"1">>, <<"2">>, <<"3">>, <<"4">>, <<"5">> >>
MixedLabel == << <<"1", "a">>, <<"2">>, <<"3">>, <<"4">> >>

\* /^\d+\.\d+\.\d+\.\d+$/.test(domain)
IsDottedNumbers(domain) ==
    /\ Len(domain) = 4
    /\ \A i \in 1..4 :
          /\ domain[i] # <<>>
          /\ \A j \in 1..Len(domain[i]) : IsDigit(domain[i][j])

\* [...new Set(list)]: first occurrences, in order
RECURSIVE Unique(_)
Unique(list) ==
    IF list = <<>> THEN <<>>
    ELSE LET rest == Unique(SubSeq(list, 1, Len(list) - 1))
             x    == list[Len(list)]
         IN  IF \E i \in 1..Len(rest) : rest[i] = x THEN rest ELSE Append(rest, x)

\* a classifier that makes every name a DNS name
AltNameAlwaysDns(domain) == [type |-> 2, value |-> domain]

\* the loop body of generateServerCert: type 7 (IP) or type 2 (DNS)
AltName(domain) ==
    IF IsDottedNumbers(domain) THEN [type |-> 7, value |-> domain]
    ELSE [type |-> 2, value |-> domain]

\* altNames of generateServerCert
AltNames(domains) ==
    LET allDomains == Unique(<<Localhost, Loopback>> \o domains)
    IN  [i \in 1..Len(allDomains) |-> AltName(allDomains[i])]

\* generateCA(), the id-th key pair, made at time t
GenerateCA(id, t) ==
    [cert |-> [pem |-> "cert", id |-> id, subject |-> "MockMate CA",
               issuer |-> "MockMate CA", cA |-> TRUE, altNames |-> <<>>,
               notAfter |-> t + CA_VALIDITY_YEARS * DaysPerYear * HalfDaysPerDay],
     privateKey |-> [pem |-> "key", id |-> id]]

\* generateServerCert(ca, domains), the id-th key pair, made at time t
IssueServerCert(ca, domains, id, t) ==
    [cert |-> [pem |-> "cert", id |-> id, subject |-> "MockMate Server",
               issuer |-> ca.cert.subject, cA |-> FALSE,
               altNames |-> AltNames(domains),
               notAfter |-> t + SERVER_VALIDITY_YEARS * DaysPerYear * HalfDaysPerDay],
     privateKey |-> [pem |-> "key", id |-> id]]

\* loadCertificates() returns null
NoPair == [ca |-> Missing, server |-> Missing]

\* loadCertificates()
LoadCertificates(fs) ==
    IF \E f \in CertFiles : fs[f] = Missing THEN NoPair
    ELSE [ca |-> [cert |-> fs["ca.crt"], privateKey |-> fs["ca.key"]],
          server |-> [cert |-> fs["server.crt"], privateKey |-> fs["server.key"]]]

\* saveCertificates(certs)
SaveCertificates(certs) ==
    [f \in CertFiles |->
        CASE f = "ca.crt"     -> certs.ca.cert
          [] f = "ca.key"     -> certs.ca.privateKey
          [] f = "server.crt" -> certs.server.cert
          [] f = "server.key" -> certs.server.privateKey]

\* forge.pki.certificateFromPem(certPem) does not throw
ParsesAsCertificate(certPem) == certPem.pem = "cert"

\* a threshold test that regenerates every time
ShouldRegenerateAlways(daysUntilExpiry) == TRUE

\* a threshold test that keeps a certificate with 30 whole days left
ShouldRegenerateBelow(daysUntilExpiry) == daysUntilExpiry < REGENERATE_THRESHOLD_DAYS

\* daysUntilExpiry <= REGENERATE_THRESHOLD_DAYS
ShouldRegenerate(daysUntilExpiry) == daysUntilExpiry <= REGENERATE_THRESHOLD_DAYS

\* validateCertificate(certPem) at time t; Math.floor of the days left
ValidateCertificate(certPem, t) ==
    IF ParsesAsCertificate(certPem)
    THEN LET daysUntilExpiry == (certPem.notAfter - t) \div HalfDaysPerDay
         IN  [isValid |-> TRUE, daysUntilExpiry |-> daysUntilExpiry,
              shouldRegenerate |-> ShouldRegenerate(daysUntilExpiry)]
    ELSE [isValid |-> FALSE, shouldRegenerate |-> TRUE]

\* shouldRegenerateCerts(certs)
ShouldRegenerateCerts(certs, t) ==
    \/ ValidateCertificate(certs.ca.cert, t).shouldRegenerate
    \/ ValidateCertificate(certs.server.cert, t).shouldRegenerate

\* the two validateCertificate calls of shouldRegenerateCerts, none when
\* loadCertificates returned null
Validations(existing, t) ==
    IF existing = NoPair THEN <<>>
    ELSE <<[certPem |-> existing.ca.cert,
            result |-> ValidateCertificate(existing.ca.cert, t)],
           [certPem |-> existing.server.cert,
            result |-> ValidateCertificate(existing.server.cert, t)]>>

EnsureDomains == { <<>>, <<LanAddress>> }

\* ensureCertificates(domains) at a process start
EnsureCertificates ==
    /\ ensured.calls < MaxStarts
    /\ \E domains \in EnsureDomains :
          LET existing == LoadCertificates(files)
              reuse    == existing # NoPair /\ ~ShouldRegenerateCerts(existing, now)
              ca       == GenerateCA(minted.all + 1, now)
              server   == IssueServerCert(ca, domains, minted.all + 2, now)
              certs    == [ca |-> ca, server |-> server]
          IN  /\ files' = IF reuse THEN files ELSE SaveCertificates(certs)
              /\ minted' = IF reuse THEN minted
                           ELSE [ca |-> minted.ca + 1, all |-> minted.all + 2]
              /\ ensured' = [calls |-> ensured.calls + 1, domains |-> domains,
                             at |-> now, before |-> files,
                             after |-> IF reuse THEN files ELSE SaveCertificates(certs),
                             reused |-> reuse,
                             checked |-> Validations(existing, now),
                             result |-> IF reuse THEN existing ELSE certs]
    /\ UNCHANGED <<now, waits, call, blind, cacheVars, project, conns, resolveVars, tunnelVars, storeVars>>

\* half a day, and 334 days
Durations == {1, 668}

\* time passes between process starts
Wait ==
    /\ waits < MaxWaits
    /\ \E d \in Durations : now' = now + d
    /\ waits' = waits + 1
    /\ UNCHANGED <<files, ensured, minted, call, blind, cacheVars, project, conns,
                   resolveVars, tunnelVars, storeVars>>

\* the files that are absent or do not parse
Damaged == { f \in CertFiles : files[f] \in {Missing, Garbage} }

\* a file of the directory is removed
DeleteFile ==
    /\ Cardinality(Damaged) < MaxDamaged
    /\ \E f \in CertFiles : files' = [files EXCEPT ![f] = Missing]
    /\ UNCHANGED <<now, waits, ensured, minted, call, blind, cacheVars, project, conns,
                   resolveVars, tunnelVars, storeVars>>

\* a file of the directory is overwritten with text that does not parse
CorruptFile ==
    /\ Cardinality(Damaged) < MaxDamaged
    /\ \E f \in CertFiles : files' = [files EXCEPT ![f] = Garbage]
    /\ UNCHANGED <<now, waits, ensured, minted, call, blind, cacheVars, project, conns,
                   resolveVars, tunnelVars, storeVars>>

CertInit ==
    /\ CacheConstructed(ProxyCacheMaxSize)
    /\ conns = [c \in ConnIds |-> FreshConn]
    /\ project = NoProject
    /\ ResolveIdle
    /\ TunnelIdle
    /\ RestIdle

CertNext == EnsureCertificates \/ Wait \/ DeleteFile \/ CorruptFile

\* lists of requested names: none, an address, names, repeats of the
\* built-in names and of each other, malformed addresses
RequestedNames ==
    { <<>>, <<LanAddress>>, <<ApiHost>>, <<Localhost>>, <<Loopback, ApiHost>>,
      <<ApiHost, LanAddress, ApiHost>>, <<ThreeNumbers, FiveNumbers, MixedLabel>> }

\* generateServerCert is called on a CA and a list of names
CallGenerateServerCert ==
    /\ \E domains \in RequestedNames :
          LET ca == GenerateCA(1, 0)
          IN  call' = [fn |-> "generateServerCert", ca |-> ca, domains |-> domains,
                       result |-> IssueServerCert(ca, domains, 2, 0)]
    /\ UNCHANGED <<cacheVars, project, conns, resolveVars, tunnelVars, blind, certVars, storeVars>>

\* ------------------------------------------------------------------------
\* Single calls: the forwarders, the response serializer and the matcher
\* ------------------------------------------------------------------------

PathEmptyHost == <<"/", "/">>

ForwardPaths == {PathU, PathUQuery, PathEmptyHost}

\* new URL(path, baseUrl) throws: the base does not parse, or the path is
\* `//`, a network-path reference with an empty host, under an http(s) base
TargetUrlThrows(path, baseUrl) ==
    \/ UrlThrows(baseUrl)
    \/ path = PathEmptyHost /\ baseUrl # "file:///tmp/mock"

\* the outcome of one call of forwardRequest(baseUrl, req), and likewise of
\* proxyRequest(baseUrl, req): the target URL is built before the try block,
\* fetch and its failures are inside it
ForwardCall(baseUrl, path, up) ==
    IF TargetUrlThrows(path, baseUrl)
    THEN [threw |-> TRUE, statusCode |-> 0, body |-> "none"]
    ELSE [threw |-> FALSE, statusCode |-> ForwardStatus(up),
          body |-> IF up = "200" THEN "upstream" ELSE "json-error"]

\* forwardRequest or proxyRequest is called on a base URL and a request
CallForward ==
    /\ \E fn \in {"forwardRequest", "proxyRequest"}, baseUrl \in BaseUrls \ {Undefined},
          method \in HttpMethods, path \in ForwardPaths, up \in UpstreamReplies :
          call' = [fn |-> fn, baseUrl |-> baseUrl, method |-> method, path |-> path,
                   up |-> up, result |-> ForwardCall(baseUrl, path, up)]
    /\ UNCHANGED <<cacheVars, project, conns, resolveVars, tunnelVars, blind, certVars, storeVars>>

\* ---- serializeHttpResponse ----

Header(key, value) == [key |-> key, value |-> value]

\* String.prototype.toLowerCase on the header names of the model
LowerCase(key) ==
    CASE key = "Content-Type"   -> "content-type"
      [] key = "Content-Length" -> "content-length"
      [] key = "X-Trace"        -> "x-trace"
      [] OTHER                  -> key

\* obj[key] = value: an own property keeps its place, a new one goes last;
\* property names are compared exactly
ObjSet(obj, key, value) ==
    IF \E i \in 1..Len(obj) : obj[i].key = key
    THEN [i \in 1..Len(obj) |-> IF obj[i].key = key THEN Header(key, value) ELSE obj[i]]
    ELSE Append(obj, Header(key, value))

\* { ...a, ...b }
RECURSIVE ObjSpread(_, _)
ObjSpread(a, b) ==
    IF b = <<>> THEN a ELSE ObjSpread(ObjSet(a, Head(b).key, Head(b).value), Tail(b))

\* buildResponse: { 'Content-Type': 'application/json', ...scenario.responseHeaders }
BuildHeaders(responseHeaders) ==
    ObjSpread(<<Header("Content-Type", "application/json")>>, responseHeaders)

\* serializeHttpResponse: headers['content-length'] = String(body.length),
\* then one header line per property
SerializeHeaders(headers, bodyLength) ==
    ObjSet(headers, "content-length", Digits[bodyLength + 1])

\* Scenario.responseHeaders of the scenarios explored
ResponseHeaderSets ==
    { <<>>,
      <<Header("X-Trace", "1")>>,
      <<Header("Content-Type", "text/plain")>>,
      <<Header("content-length", "5")>>,
      <<Header("Content-Length", "5")>>,
      <<Header("Content-Length", "2")>>,
      <<Header("X-Trace", "1"), Header("Content-Length", "0")>> }

\* headers of an upstream response as forwardRequest collects them from
\* fetch's Headers, whose names are lower-case
UpstreamHeaderSets ==
    { <<>>,
      <<Header("content-type", "text/plain"), Header("content-length", "5")>>,
      <<Header("content-length", "0")>> }

BodyLengths == 0..3

\* the proxy serializes a mock response or a forwarded one
CallSerialize ==
    /\ \E origin \in {"mock", "forward"}, n \in BodyLengths :
          \E supplied \in (IF origin = "mock" THEN ResponseHeaderSets
                           ELSE UpstreamHeaderSets) :
             LET headers == IF origin = "mock" THEN BuildHeaders(supplied) ELSE supplied
             IN  call' = [fn |-> "serializeHttpResponse", origin |-> origin,
                          supplied |-> supplied, bodyLength |-> n,
                          result |-> SerializeHeaders(headers, n)]
    /\ UNCHANGED <<cacheVars, project, conns, resolveVars, tunnelVars, blind, certVars, storeVars>>

\* ---- matchRequest ----

PathParam == <<"/", ":", "i">>
PathRoot == <<"/">>
PathUX == <<"/", "u", "/", "x">>
PathUSlashSlash == <<"/", "u", "/", "/">>

\* resource lists given to matchRequest: a literal and a parameterized
\* pattern in both orders, one path under two methods, nested patterns
MatchLists ==
    { <<>>,
      <<Res("r1", "GET", PathU, <<ScDefault>>), Res("r2", "GET", PathParam, <<ScDefault>>)>>,
      <<Res("r1", "GET", PathParam, <<ScDefault>>), Res("r2", "GET", PathU, <<ScDefault>>)>>,
      <<Res("r1", "POST", PathU, <<ScDefault>>), Res("r2", "GET", PathU, <<ScDefault>>)>>,
      <<Res("r1", "POST", PathParam, <<ScDefault>>), Res("r2", "GET", PathUSlash, <<ScDefault>>)>>,
      <<Res("r1", "GET", PathUParam, <<ScDefault>>), Res("r2", "GET", PathRoot, <<ScDefault>>),
        Res("r3", "POST", PathUX, <<ScDefault>>)>> }

MatchPaths ==
    {PathU, PathX, PathUSlash, PathRoot, PathUX, PathUQuery, PathEmptyHost, PathUSlashSlash}

MatchMethods == {"GET", "POST", "PUT"}

\* matchRequest is called on a method, a path and a resource list
CallMatch ==
    /\ \E method \in MatchMethods, path \in MatchPaths, rs \in MatchLists :
          call' = [fn |-> "matchRequest", method |-> method, path |-> path,
                   resources |-> rs, result |-> MatchRequest(method, path, rs)]
    /\ UNCHANGED <<cacheVars, project, conns, resolveVars, tunnelVars, blind, certVars, storeVars>>

\* ---- extractParams ----

\* paramNames of pathToRegex: the names of the groups, left to right
RECURSIVE ParamNames(_)
ParamNames(tokens) ==
    IF tokens = <<>> THEN <<>>
    ELSE (IF IsParam(Head(tokens)) THEN <<Head(tokens).param>> ELSE <<>>)
             \o ParamNames(Tail(tokens))

NoRegexMatch == [matched |-> FALSE, groups |-> <<>>]

\* path.match(regex): the captures of the first match the backtracking
\* engine finds; ([^/]+) is greedy, so the longest run is tried first
RECURSIVE RegexExec(_, _, _, _)
RegexExec(tokens, ti, path, pi) ==
    IF ti > Len(tokens)
    THEN (IF pi > Len(path) THEN [matched |-> TRUE, groups |-> <<>>] ELSE NoRegexMatch)
    ELSE IF IsParam(tokens[ti])
    THEN LET runs == { n \in 1..(Len(path) - pi + 1) :
                         /\ \A j \in pi..(pi + n - 1) : path[j] # "/"
                         /\ RegexExec(tokens, ti + 1, path, pi + n).matched }
         IN  IF runs = {} THEN NoRegexMatch
             ELSE LET n == CHOOSE m \in runs : \A o \in runs : o <= m
                  IN  [matched |-> TRUE,
                       groups |-> <<SubSeq(path, pi, pi + n - 1)>>
                                     \o RegexExec(tokens, ti + 1, path, pi + n).groups]
    ELSE IF pi <= Len(path) /\ path[pi] = tokens[ti].lit
    THEN RegexExec(tokens, ti + 1, path, pi + 1)
    ELSE NoRegexMatch

\* the loop of extractParams: params[paramNames[i]] = match[i + 1]
RECURSIVE BindParams(_, _, _, _)
BindParams(params, paramNames, groups, i) ==
    IF i > Len(paramNames) THEN params
    ELSE BindParams(ObjSet(params, paramNames[i], groups[i]), paramNames, groups, i + 1)

\* extractParams: {} when the path does not match
ExtractParams(path, pattern) ==
    LET tokens == PathToRegex(pattern)
        match  == RegexExec(tokens, 1, path, 1)
    IN  IF ~match.matched THEN <<>>
        ELSE BindParams(<<>>, ParamNames(tokens), match.groups, 1)

PathTwoParams == <<"/", ":", "i", "/", ":", "q">>
PathSameParams == <<"/", ":", "i", "/", "u", "/", ":", "i">>
PathUXQ == <<"/", "u", "/", "x", "/", "q">>
PathXUQ == <<"/", "x", "/", "u", "/", "q">>

\* patterns with no, one and two parameters, one of them naming both alike
ExtractPatterns == {PathU, PathRoot, PathParam, PathUParam, PathTwoParams, PathSameParams}

ExtractPaths == {PathU, PathX, PathRoot, PathUX, PathUSlash, PathUXQ, PathXUQ}

\* extractParams is called on a path and a pattern
CallExtract ==
    /\ \E path \in ExtractPaths, pattern \in ExtractPatterns :
          call' = [fn |-> "extractParams", path |-> path, pattern |-> pattern,
                   result |-> ExtractParams(path, pattern)]
    /\ UNCHANGED <<cacheVars, project, conns, resolveVars, tunnelVars, blind, certVars, storeVars>>

\* ---- buildResponse ----

\* scenario.responseHeaders, undefined when the scenario has none
ScenarioResponseHeaders(scenario) ==
    IF "responseHeaders" \in DOMAIN scenario THEN scenario.responseHeaders ELSE <<>>

\* the headers of buildResponse(scenario)
BuildResponseHeaders(scenario) == BuildHeaders(ScenarioResponseHeaders(scenario))

\* scenarios as the tests and updateScenario write them: with a `headers`
\* field, with a `responseHeaders` field, with both
HeaderScenarios ==
    [name : {"default"}, statusCode : {200},
     headers : { <<>>, <<Header("X-Trace", "1")>>, <<Header("Content-Type", "text/plain")>> }]
    \cup
    [name : {"default"}, statusCode : {200},
     headers : { <<>>, <<Header("X-Trace", "1")>> },
     responseHeaders : { <<>>, <<Header("X-Trace", "2")>>,
                         <<Header("Content-Type", "text/plain")>> }]

\* buildResponse is called on a scenario
CallBuildResponse ==
    /\ \E scenario \in HeaderScenarios :
          call' = [fn |-> "buildResponse", scenario |-> scenario,
                   result |-> BuildResponseHeaders(scenario)]
    /\ UNCHANGED <<cacheVars, project, conns, resolveVars, tunnelVars, blind, certVars, storeVars>>

\* ---- claims about single calls ----

CallInit ==
    /\ CacheConstructed(ProxyCacheMaxSize)
    /\ conns = [c \in ConnIds |-> FreshConn]
    /\ project = NoProject
    /\ ResolveIdle
    /\ TunnelIdle
    /\ call = NoCall
    /\ blind = NoBlind
    /\ CertIdle
    /\ StoreIdle

CallNext ==
    \/ CallForward \/ CallSerialize \/ CallMatch \/ CallExtract
    \/ CallGenerateServerCert \/ CallBuildResponse

\* C16: forwardRequest (and proxyRequest) returns a response object for
\* every request and base URL and never throws: 504 with a JSON error body
\* when the upstream does not answer in time, 502 with a JSON error body on
\* any other failure.
C16_ForwarderNeverThrows ==
    call.fn \in {"forwardRequest", "proxyRequest"} =>
        /\ ~call.result.threw
        /\ call.up = "timeout" =>
              (call.result.statusCode = 504 /\ call.result.body = "json-error")
        /\ call.up = "refused" =>
              (call.result.statusCode = 502 /\ call.result.body = "json-error")

\* the header lines of the serialized response named Content-Length in any case
ContentLengthLines(headers) ==
    { i \in 1..Len(headers) : LowerCase(headers[i].key) = "content-length" }

\* C19: every response the proxy serializes has exactly one Content-Length
\* header, names compared without case, and its value is the length of the
\* body written, whatever headers the scenario or the upstream supplied.
C19_OneContentLength ==
    call.fn = "serializeHttpResponse" =>
        /\ Cardinality(ContentLengthLines(call.result)) = 1
        /\ \A i \in ContentLengthLines(call.result) :
              call.result[i].value = Digits[call.bodyLength + 1]

\* the segments of a path between its slashes, one trailing slash dropped
\* unless the path is the root
Segments(path) ==
    Split(IF Len(path) > 1 /\ path[Len(path)] = "/"
          THEN SubSeq(path, 1, Len(path) - 1) ELSE path, "/")

\* a pattern segment `:name` stands for any non-empty segment, any other
\* segment for itself
SegmentMatches(patternSegment, segment) ==
    IF Len(patternSegment) > 1 /\ patternSegment[1] = ":"
    THEN segment # <<>>
    ELSE patternSegment = segment

\* the pattern matches the whole normalized path, segment by segment
PatternMatchesWhole(pattern, path) ==
    /\ Len(Segments(pattern)) = Len(Segments(path))
    /\ \A i \in 1..Len(Segments(pattern)) :
          SegmentMatches(Segments(pattern)[i], Segments(path)[i])

\* the positions of the resources of the call that the request may be given
Candidates ==
    { i \in 1..Len(call.resources) :
        /\ call.resources[i].method = call.method
        /\ PatternMatchesWhole(call.resources[i].path, call.path) }

\* C20: matchRequest returns the first resource of the supplied list whose
\* method equals the request's and whose pattern matches the whole normalized
\* path, null when there is none; never a resource of another method; between
\* a literal and a parameterized pattern that both match, list order decides.
C20_FirstMatchInListOrder ==
    call.fn = "matchRequest" =>
        /\ Candidates = {} => call.result = NoMatch
        /\ Candidates # {} => call.result = call.resources[Min(Candidates)]
        /\ call.result # NoMatch => call.result.method = call.method

\* a parameterized pattern listed before a matching literal one was returned
C20_Witness ==
    /\ call.fn = "matchRequest"
    /\ call.path = PathU
    /\ Cardinality(Candidates) = 2
    /\ call.result.id = "r1"
    /\ call.result.path = PathParam

\* the segments of a path between its slashes, as written
RawSegments(path) == Split(path, "/")

\* a pattern segment that is a parameter: ':' and a name
IsNameSegment(seg) ==
    /\ Len(seg) > 1 /\ seg[1] = ":" /\ seg[2] \in IdStart
    /\ \A j \in 3..Len(seg) : seg[j] \in IdChar

\* the positions of the `:name` segments of a pattern, left to right
NamePositions(pattern) ==
    { i \in 1..Len(RawSegments(pattern)) : IsNameSegment(RawSegments(pattern)[i]) }

\* the position of the j-th `:name` segment
RECURSIVE NthPosition(_, _)
NthPosition(S, j) == IF j = 1 THEN Min(S) ELSE NthPosition(S \ {Min(S)}, j - 1)

\* the pattern matches the path as written, segment by segment
MatchesAsWritten(pattern, path) ==
    /\ Len(RawSegments(pattern)) = Len(RawSegments(path))
    /\ \A i \in 1..Len(RawSegments(pattern)) :
          SegmentMatches(RawSegments(pattern)[i], RawSegments(path)[i])

\* C21: for a pattern with k `:name` segments, a matching path yields
\* exactly k parameters, the j-th named by the j-th `:name` segment and bound
\* to the path segment at its position; the pattern matches whole paths only,
\* and a path that does not match yields the empty parameter map.
C21_ExactlyKParamsInOrder ==
    call.fn = "extractParams" =>
        LET at == NamePositions(call.pattern)
            k  == Cardinality(at)
        IN  IF MatchesAsWritten(call.pattern, call.path)
            THEN /\ Len(call.result) = k
                 /\ \A j \in 1..k :
                       call.result[j] =
                           Header(Tail(RawSegments(call.pattern)[NthPosition(at, j)]),
                                  RawSegments(call.path)[NthPosition(at, j)])
            ELSE call.result = <<>>

\* a request path other than the root that ends in a slash
EndsInSlash(path) == Len(path) > 1 /\ path[Len(path)] = "/"

\* the positions of the resources of the call whose method is the request's
\* and whose declared pattern matches the given path taken as written
WrittenCandidates(path) ==
    { i \in 1..Len(call.resources) :
        /\ call.resources[i].method = call.method
        /\ Len(Segments(call.resources[i].path)) = Len(RawSegments(path))
        /\ \A j \in 1..Len(RawSegments(path)) :
              SegmentMatches(Segments(call.resources[i].path)[j], RawSegments(path)[j]) }

\* C22: matchRequest gives a request path that ends in a slash the resource
\* that the path without that slash has (`/u/` is given the resource declared
\* as `/u`); the path `/` is left as it is and is given only a resource
\* declared as `/`.
C22_TrailingSlashStripped ==
    call.fn = "matchRequest" =>
        /\ EndsInSlash(call.path) =>
              LET stripped == SubSeq(call.path, 1, Len(call.path) - 1)
              IN  call.result = IF WrittenCandidates(stripped) = {} THEN NoMatch
                                ELSE call.resources[Min(WrittenCandidates(stripped))]
        /\ call.path = PathRoot =>
              /\ call.result # NoMatch => call.result.path = PathRoot
              /\ (\E i \in 1..Len(call.resources) :
                     /\ call.resources[i].method = call.method
                     /\ call.resources[i].path = PathRoot) => call.result # NoMatch

\* `/u/` was given the resource declared as `/u`
C22_Witness ==
    /\ call.fn = "matchRequest"
    /\ call.path = PathUSlash
    /\ call.result # NoMatch
    /\ call.result.path = PathU

\* ---- claims about the certificates ----

\* the pair persisted before the latest ensureCertificates call
Persisted == LoadCertificates(ensured.before)

\* time left to a certificate's expiry at the latest call, in half days
TimeLeft(certPem) == certPem.notAfter - ensured.at

\* all four files were there before the latest call and both certificates parsed
PersistedParse ==
    /\ ensured.calls > 0
    /\ Persisted # NoPair
    /\ ParsesAsCertificate(Persisted.ca.cert)
    /\ ParsesAsCertificate(Persisted.server.cert)

\* the latest call returned the persisted pair and wrote nothing
ReturnedPersisted ==
    /\ ensured.result = Persisted
    /\ ensured.after = ensured.before

C26_CaRegeneratedOnlyWhenMissingOrCorrupt ==
    (ensured.calls > 0 /\ ~ensured.reused) =>
        \/ ensured.before["ca.crt"] \in {Missing, Garbage}
        \/ ensured.before["ca.key"] \in {Missing, Garbage}

\* the validateCertificate calls made by the latest ensureCertificates call
Validated == IF ensured.calls = 0 THEN {} ELSE Range(ensured.checked)

\* the whole days in a span of half days, rounded down
WholeDays(span) == (span - (span % HalfDaysPerDay)) \div HalfDaysPerDay

\* C27: validateCertificate reports shouldRegenerate exactly when the text
\* does not parse as a certificate or its whole days until expiry are at most
\* 30; text that does not parse yields isValid = false with shouldRegenerate
\* = true, no error; and ensureCertificates, finding such text in a
\* certificate file, generates and stores a new pair as it does for a
\* missing file.
C27_RegenerateAtThirtyWholeDays ==
    /\ \A v \in Validated :
          /\ v.result.shouldRegenerate <=>
                \/ v.certPem.pem # "cert"
                \/ WholeDays(TimeLeft(v.certPem)) <= 30
          /\ v.certPem.pem # "cert" =>
                v.result = [isValid |-> FALSE, shouldRegenerate |-> TRUE]
          /\ v.certPem.pem = "cert" => v.result.isValid
    /\ (/\ ensured.calls > 0
        /\ \E f \in {"ca.crt", "server.crt"} : ensured.before[f] = Garbage)
       => /\ ~ensured.reused
          /\ ensured.result.ca.cert.pem = "cert"
          /\ ensured.result.server.cert.pem = "cert"
          /\ ensured.result.ca.cert.id \notin
                { ensured.before[f].id :
                    f \in { g \in CertFiles : "id" \in DOMAIN ensured.before[g] } }
          /\ ensured.after = SaveCertificates(ensured.result)

\* a start found an unparsable CA certificate and a server certificate 30
\* and a half days from its expiry, reported both and stored a new pair
C27_Witness ==
    /\ ensured.calls = 2
    /\ ensured.before["ca.crt"] = Garbage
    /\ \E v \in Validated :
          /\ v.certPem.pem = "cert"
          /\ TimeLeft(v.certPem) = 30 * HalfDaysPerDay + 1
          /\ v.result.isValid
          /\ v.result.shouldRegenerate
    /\ ~ensured.reused
    /\ minted.ca = 2

\* the type of a requested name: 7 for four dot-separated numbers, else 2
SanType(domain) ==
    IF Len(domain) = 4 /\ \A i \in 1..4 : Len(domain[i]) > 0 /\ Range(domain[i]) \subseteq Range(Digits)
    THEN 7 ELSE 2

\* C28: the certificate generateServerCert issues has the CA's subject as
\* issuer and basicConstraints cA = false; its SANs are localhost, 127.0.0.1
\* and the requested names, each once, an IP SAN for a dotted quad and a DNS
\* SAN otherwise.
C28_LeafIssuedByCaWithSans ==
    call.fn = "generateServerCert" =>
        LET leaf == call.result.cert
            sans == leaf.altNames
        IN  /\ leaf.issuer = call.ca.cert.subject
            /\ leaf.cA = FALSE
            /\ { sans[i].value : i \in 1..Len(sans) } =
                  {Localhost, Loopback} \cup Range(call.domains)
            /\ \A i, j \in 1..Len(sans) : sans[i].value = sans[j].value => i = j
            /\ \A i \in 1..Len(sans) : sans[i].type = SanType(sans[i].value)

\* an address and a repeated name were requested: four SANs, two of them IP
C28_Witness ==
    /\ call.fn = "generateServerCert"
    /\ call.domains = <<ApiHost, LanAddress, ApiHost>>
    /\ Len(call.result.cert.altNames) = 4
    /\ Cardinality({ i \in 1..4 : call.result.cert.altNames[i].type = 7 }) = 2

\* the values a header object holds under a name
ValuesOf(headers, key) == { headers[i].value : i \in { j \in 1..Len(headers) : headers[j].key = key } }

\* C29: the headers of a built mock response are Content-Type:
\* application/json overlaid by the headers the scenario declares in its
\* `headers` field: each of them is in the response with its value, and a
\* declared Content-Type replaces the default.
C29_DeclaredHeadersOverlayDefault ==
    call.fn = "buildResponse" =>
        /\ \A i \in 1..Len(call.scenario.headers) :
              ValuesOf(call.result, call.scenario.headers[i].key)
                  = {call.scenario.headers[i].value}
        /\ ValuesOf(call.scenario.headers, "Content-Type") = {}
              => ValuesOf(call.result, "Content-Type") = {"application/json"}

\* ------------------------------------------------------------------------
\* The blind tunnel (services/proxy-server.ts, blindTunnel)
\* ------------------------------------------------------------------------

\* bytes each side sends through one blind tunnel
MaxRelay == 3

\* the k-th byte the client and the real server send
ClientByte(k) == <<"c1", "c2", "c3", "c4", "c5">>[k]

ServerByte(k) == <<"s1", "s2", "s3", "s4", "s5">>[k]

Established == "HTTP/1.1 200 Connection Established"

BadGateway == "HTTP/1.1 502 Bad Gateway"

\* error codes a TCP socket reports while it connects and once it is connected
ConnectErrors == {"ECONNREFUSED", "ETIMEDOUT", "ECONNRESET"}

StreamErrors == {"ECONNRESET", "EPIPE", "ETIMEDOUT"}

\* blindTunnel(clientSocket, hostname, port) has called net.createConnection
BlindStarted ==
    [state |-> "started",
     upstream |-> "connecting",     \* connecting, open, ended, destroyed
     client |-> "open",             \* open, ended, destroyed
     toClient |-> <<>>,             \* what was written to the client socket
     toUpstream |-> <<>>,           \* what was written to the upstream socket
     fromClient |-> 0,              \* bytes the client has sent
     fromServer |-> 0,              \* bytes the real server has sent
     connected |-> FALSE,           \* the connect callback ran
     closedBy |-> "none",           \* the side whose end or error closed the tunnel
     connectFailed |-> FALSE]       \* an error arrived before the connect callback

\* the connect callback: write the 200, then pipe both ways
UpstreamConnect ==
    /\ blind.upstream = "connecting"
    /\ blind.client = "open"
    /\ blind' = [blind EXCEPT !.upstream = "open", !.connected = TRUE,
                              !.toClient = Append(@, Established)]
    /\ UNCHANGED <<cacheVars, project, conns, resolveVars, tunnelVars, call, certVars, storeVars>>

\* upstream.on('error'): ECONNRESET and EPIPE destroy the client socket, any
\* other code ends it with the 502 line, whether or not the tunnel was
\* established
UpstreamError ==
    /\ blind.client = "open"
    /\ \E code \in (IF blind.upstream = "connecting" THEN ConnectErrors
                    ELSE IF blind.upstream = "open" THEN StreamErrors ELSE {}) :
          blind' = [blind EXCEPT
                       !.upstream = "destroyed",
                       !.closedBy = "upstream",
                       !.connectFailed = (blind.upstream = "connecting"),
                       !.client = IF code \in {"ECONNRESET", "EPIPE"}
                                  THEN "destroyed" ELSE "ended",
                       !.toClient = IF code \in {"ECONNRESET", "EPIPE"}
                                    THEN @ ELSE Append(@, BadGateway)]
    /\ UNCHANGED <<cacheVars, project, conns, resolveVars, tunnelVars, call, certVars, storeVars>>

\* clientSocket.pipe(upstream): a byte from the client goes to the upstream
ClientData ==
    /\ blind.upstream = "open"
    /\ blind.client = "open"
    /\ blind.fromClient < MaxRelay
    /\ blind' = [blind EXCEPT !.fromClient = @ + 1,
                              !.toUpstream = Append(@, ClientByte(blind.fromClient + 1))]
    /\ UNCHANGED <<cacheVars, project, conns, resolveVars, tunnelVars, call, certVars, storeVars>>

\* upstream.pipe(clientSocket): a byte from the real server goes to the client
UpstreamData ==
    /\ blind.upstream = "open"
    /\ blind.client = "open"
    /\ blind.fromServer < MaxRelay
    /\ blind' = [blind EXCEPT !.fromServer = @ + 1,
                              !.toClient = Append(@, ServerByte(blind.fromServer + 1))]
    /\ UNCHANGED <<cacheVars, project, conns, resolveVars, tunnelVars, call, certVars, storeVars>>

\* clientSocket.on('end'): upstream.end()
ClientEnd ==
    /\ blind.client = "open"
    /\ blind.upstream \in {"connecting", "open"}
    /\ blind' = [blind EXCEPT !.client = "ended", !.upstream = "ended",
                              !.closedBy = "client"]
    /\ UNCHANGED <<cacheVars, project, conns, resolveVars, tunnelVars, call, certVars, storeVars>>

\* the real server ends its side: the pipe ends the client socket
UpstreamEnd ==
    /\ blind.upstream = "open"
    /\ blind.client = "open"
    /\ blind' = [blind EXCEPT !.client = "ended", !.upstream = "ended",
                              !.closedBy = "upstream"]
    /\ UNCHANGED <<cacheVars, project, conns, resolveVars, tunnelVars, call, certVars, storeVars>>

\* clientSocket.on('error'): upstream.destroy()
ClientError ==
    /\ blind.client = "open"
    /\ blind.upstream \in {"connecting", "open"}
    /\ blind' = [blind EXCEPT !.client = "destroyed", !.upstream = "destroyed",
                              !.closedBy = "client"]
    /\ UNCHANGED <<cacheVars, project, conns, resolveVars, tunnelVars, call, certVars, storeVars>>

BlindInit ==
    /\ CacheConstructed(ProxyCacheMaxSize)
    /\ conns = [c \in ConnIds |-> FreshConn]
    /\ project \in {NoProject, TunnelProject}
    /\ ResolveIdle
    /\ TunnelIdle
    /\ call = NoCall
    /\ blind = BlindStarted
    /\ CertIdle
    /\ StoreIdle

BlindNext ==
    \/ UpstreamConnect \/ UpstreamError \/ ClientData \/ UpstreamData
    \/ ClientEnd \/ UpstreamEnd \/ ClientError

\* the bytes relayed so far, as each side sent them
ServerBytes(n) == [k \in 1..n |-> ServerByte(k)]

ClientBytes(n) == [k \in 1..n |-> ClientByte(k)]

\* C17: on the blind path the client gets the 200 line only after the TCP
\* connection succeeded; a failed connection attempt gives it the 502 line
\* and a closed connection; after the 200 the client receives exactly the
\* real server's bytes and the real server exactly the client's.
C17_BlindTunnelRelays ==
    /\ blind.connected =>
          /\ blind.toClient = <<Established>> \o ServerBytes(blind.fromServer)
          /\ blind.toUpstream = ClientBytes(blind.fromClient)
    /\ ~blind.connected => Established \notin Range(blind.toClient)
    /\ blind.connectFailed =>
          /\ blind.toClient = <<BadGateway>>
          /\ blind.client # "open"

\* C36: on the blind-tunnel path, once `200 Connection Established` has been
\* sent, the 502 line is never written into the client stream.
C36_No502AfterEstablished ==
    Established \in Range(blind.toClient) => BadGateway \notin Range(blind.toClient)

\* ------------------------------------------------------------------------
\* Specifications
\* ------------------------------------------------------------------------

\* the CertCache API driven directly: no proxy, no connections
CacheSpecInit ==
    /\ \E limit \in 1..MaxCacheSize : CacheConstructed(limit)
    /\ project = NoProject
    /\ conns = [c \in ConnIds |-> FreshConn]
    /\ ResolveIdle
    /\ TunnelIdle
    /\ RestIdle

CacheGetCert == \E d \in Domains : GetCert(d) /\ UNCHANGED <<project, conns, resolveVars, tunnelVars, restVars, storeVars>>

CacheClear == Clear /\ UNCHANGED <<project, conns, resolveVars, tunnelVars, restVars, storeVars>>

CacheSpecNext == CacheGetCert \/ CacheClear

CacheSpec == CacheSpecInit /\ [][CacheSpecNext]_vars

\* connections arriving at the proxy while the active project changes
ConnectSpec == ConnectInit /\ [][ConnectNext]_vars

\* requests resolved by the direct-connect handler and by the proxy's resolver
ResolveSpec == ResolveInit /\ [][ResolveNext]_vars


\* one intercepted tunnel serving one client's pipelined requests
Spec == TunnelInit /\ [][TunnelNext]_vars

\* timers fire and upstream calls settle; the client may stop sending
FairSpec == Spec /\ WF_vars(DelayElapsed) /\ WF_vars(UpstreamSettled)

\* one blind tunnel from its creation to its end
BlindSpec == BlindInit /\ [][BlindNext]_vars

\* single calls of the forwarders, the serializer and the matcher
CallSpec == CallInit /\ [][CallNext]_vars

\* several requests in a row while the project is edited
SessionSpec == SessionInit /\ [][SessionNext]_vars

\* the registry's service calls on one project's resources
RegistrySpec == RegistryInit /\ [][RegistryNext]_vars

\* createResource, updateResource and deleteResource on one project
ResourceSpec == RegistryInit /\ [][ResourceNext]_vars

\* the project service's calls on the storage directory
ProjectSpec == ProjectInit /\ [][ProjectNext]_vars

\* the listener of createProxyServer and the connections it accepts
ServerSpec == ServerInit /\ [][ServerNext]_vars

\* ServerSpec where every promise of a plain-HTTP connection settles
FairServerSpec ==
    ServerSpec /\ \A c \in ConnIds :
        WF_vars(HttpResolved(c)) /\ WF_vars(HttpFetched(c))

\* addLogEntry and clearLogEntries on the in-memory log
LogSpec == LogInit /\ [][LogNext]_vars

\* process starts over the certificate directory as time passes
CertSpec == CertInit /\ [][CertNext]_vars

====
